---- MODULE Spec2Model ----
(***************************************************************************)
(* ShaarliClient (src/shaarli_client.py): a Selenium client that logs in   *)
(* to a Shaarli instance, submits the two-step add-link form and scrapes   *)
(* the link list.  The client object and the browser session it drives are *)
(* modelled as one state machine.  The session (DOM, current URL, faults)  *)
(* is the environment: every session call draws its outcome from a small   *)
(* set, a raised exception being one of the outcomes.                      *)
(***************************************************************************)
EXTENDS Integers, Sequences, FiniteSets, TLC

VARIABLES
    driver,        \* self.driver: "None", "live" (started), "quit" (closed)
    is_logged_in,  \* self.is_logged_in
    pc,            \* position inside the running public operation, or "idle"
    op,            \* the public operation last called
    args,          \* its arguments
    ret,           \* what the last call gave back: "True", "False", "raise", "list"
    loc,           \* local variables of the running operation that it still reads
    i,             \* index of the selector being tried by the running loop
    fr,            \* index of the iframe being searched by login
    ctx,           \* document context of the session: 0 = default, n = iframe n
    ia,            \* frame of the last try_interact_with_element call
    resolve,       \* history of the selector loop last run
    steps,         \* history: the workflow steps taken by the running call
    acted,         \* history: the running call has made a session call
    everLoginTrue, \* history: some login call returned True
    page,          \* what the session shows to get_links: Live, or a fixed page
    prev           \* history: the previous get_links call against a fixed page

vars == <<driver, is_logged_in, pc, op, args, ret, loc, i, fr, ctx, ia,
          resolve, steps, acted, everLoginTrue, page, prev>>

----------------------------------------------------------------------------
(* Bounds of the model.                                                    *)

MaxElems == 2     \* elements of a document that a selector can match
MaxIframes == 2   \* iframes on the login page
MaxForms == 2     \* forms on the login page
MaxLimit == 2     \* largest limit passed to get_links
MaxCands == 2     \* elements matched by a container selector of get_links
MaxAnchors == 2   \* anchors returned by one anchor lookup of get_links

----------------------------------------------------------------------------
(* Values.                                                                 *)

NoElem == 0
Elems == 1..MaxElems
None == "<None>"
ENTER == "\n"
Texts == {"", "a"}

\* Python truthiness of a str-or-None argument.
Truthy(text) == text \notin {"", None}

\* URLs are sequences of tokens; `tok in url` is the substring test.
Contains(url, tok) == \E k \in 1..Len(url) : url[k] = tok

Urls == { <<"base">>, <<"base", "login">>, <<"base", "?", "login">>,
          <<"base", "admin", "add-shaare">>, <<"base", "admin">>,
          <<"base", "add-shaare">>, <<"neterror">> }

RECURSIVE Ascending(_)
Ascending(S) ==
    IF S = {} THEN <<>>
    ELSE LET m == CHOOSE x \in S : \A y \in S : x <= y
         IN <<m>> \o Ascending(S \ {m})

\* What find_elements can return when it does not raise: the matching
\* elements in document order.
FindResults == { Ascending(S) : S \in SUBSET Elems }
Fault == <<-1>>
SessionUp == driver = "live"
\* A session call on a closed or missing session always raises.
FindOutcomes == IF SessionUp THEN FindResults \cup {Fault} ELSE {Fault}
CallOutcomes == IF SessionUp THEN {"ok", "fault"} ELSE {"fault"}
IsHit(r) == r # Fault /\ r # <<>>
\* A partial-link-text lookup: only whether it matched is looked at.
LinkOutcomes == IF SessionUp THEN {<<>>, <<1>>, Fault} ELSE {Fault}

----------------------------------------------------------------------------
(* Selector plans, as listed in the source.                                *)

username_selectors == <<
    <<"name", "login">>, <<"name", "username">>, <<"name", "user">>,
    <<"id", "login">>, <<"id", "username">>, <<"id", "user">>,
    <<"css", "input[name='login']">>, <<"css", "input[name='username']">>,
    <<"css", "input[type='text']">>, <<"css", "input[type='email']">>,
    <<"xpath", "//input[@name='login']">>, <<"xpath", "//input[@name='username']">>,
    <<"xpath", "//input[@type='text']">>,
    <<"xpath", "//input[contains(@placeholder, 'user')]">>,
    <<"xpath", "//input[contains(@placeholder, 'login')]">>,
    <<"xpath", "//input[contains(@class, 'user')]">>,
    <<"xpath", "//input[contains(@class, 'login')]">> >>

IframePrefix == 5
\* Variant: the whole username plan is tried inside an iframe.
iframe_selectors_whole_plan == username_selectors
iframe_selectors == SubSeq(username_selectors, 1, IframePrefix)

password_selectors == <<
    <<"name", "password">>, <<"id", "password">>,
    <<"css", "input[name='password']">>, <<"css", "input[type='password']">>,
    <<"xpath", "//input[@name='password']">>, <<"xpath", "//input[@type='password']">> >>

url_selectors == <<
    <<"name", "post">>, <<"id", "shaare">>, <<"css", "input[name='post']">>,
    <<"css", "input[type='url']">>, <<"css", "input[type='text']">>,
    <<"xpath", "//input[@name='post']">>, <<"xpath", "//input[@id='shaare']">>,
    <<"xpath", "//input[@type='url']">> >>

first_submit_selectors == <<
    <<"css", "input[type='submit']">>, <<"css", "button[type='submit']">>,
    <<"css", "input[value*='Add']">>, <<"css", "button">>,
    <<"xpath", "//input[@type='submit']">>, <<"xpath", "//button[@type='submit']">>,
    <<"xpath", "//input[contains(@value, 'Add')]">>,
    <<"xpath", "//button[contains(text(), 'Add')]">> >>

title_selectors == <<
    <<"name", "lf_title">>, <<"name", "title">>, <<"id", "lf_title">>,
    <<"id", "title">>, <<"css", "input[name='lf_title']">>,
    <<"css", "input[name='title']">>, <<"xpath", "//input[@name='lf_title']">>,
    <<"xpath", "//input[@name='title']">> >>

desc_selectors == <<
    <<"name", "lf_description">>, <<"name", "description">>,
    <<"id", "lf_description">>, <<"id", "description">>,
    <<"css", "textarea[name='lf_description']">>,
    <<"css", "textarea[name='description']">>,
    <<"xpath", "//textarea[@name='lf_description']">>,
    <<"xpath", "//textarea[@name='description']">> >>

tags_selectors == <<
    <<"name", "lf_tags">>, <<"name", "tags">>, <<"id", "lf_tags">>,
    <<"id", "tags">>, <<"css", "input[name='lf_tags']">>,
    <<"css", "input[name='tags']">>, <<"xpath", "//input[@name='lf_tags']">>,
    <<"xpath", "//input[@name='tags']">> >>

private_selectors == <<
    <<"name", "lf_private">>, <<"name", "private">>, <<"id", "lf_private">>,
    <<"id", "private">>, <<"css", "input[name='lf_private']">>,
    <<"css", "input[name='private']">>, <<"xpath", "//input[@name='lf_private']">>,
    <<"xpath", "//input[@name='private']">> >>

save_selectors == <<
    <<"css", "input[type='submit'][value*='Save']">>,
    <<"css", "button[type='submit']">>, <<"css", "input[type='submit']">>,
    <<"css", "button">>,
    <<"xpath", "//input[@type='submit' and contains(@value, 'Save')]">>,
    <<"xpath", "//button[@type='submit']">>,
    <<"xpath", "//button[contains(text(), 'Save')]">>,
    <<"xpath", "//input[@type='submit']">> >>

submit_selectors == <<
    <<"css", "input[type='submit']">>, <<"css", "button[type='submit']">>,
    <<"css", "input[value*='Login']">>, <<"css", "input[value*='login']">>,
    <<"css", "input[value*='Log in']">>, <<"css", "button">>,
    <<"xpath", "//input[@type='submit']">>, <<"xpath", "//button[@type='submit']">>,
    <<"xpath", "//input[contains(@value, 'Login')]">>,
    <<"xpath", "//button[contains(text(), 'Login')]">> >>

----------------------------------------------------------------------------
(* try_interact_with_element.  The session calls of a tactic are listed in *)
(* order; f says that one of them raises.                                  *)

Native(action, text) ==
    IF action = "click" THEN <<"click">>
    ELSE IF action = "send_keys" /\ Truthy(text) THEN <<"clear", "send_keys">>
    ELSE <<>>

Calls(tactic, action, text) ==
    CASE tactic = "direct" -> Native(action, text)
      [] tactic = "scrolled" -> <<"scrollIntoView">> \o Native(action, text)
      [] tactic = "scripted" ->
            IF action = "click" THEN <<"js_click">>
            ELSE IF action = "send_keys" /\ Truthy(text)
                 THEN <<"js_clear", "js_set", "js_input", "js_change">>
                 ELSE <<>>

\* Variant: the set-text branch without its test of the text.
ReturnsAnyText(action, text) ==
    action = "click" \/ action = "send_keys"

\* A tactic reaches its `return True` only on a branch of its if/elif.
Returns(action, text) ==
    action = "click" \/ (action = "send_keys" /\ Truthy(text))

Tactic(tactic, action, text, f) ==
    LET faulted == f /\ Calls(tactic, action, text) # <<>>
    IN [tactic  |-> tactic,
        outcome |-> IF faulted THEN "fault"
                    ELSE IF Returns(action, text) THEN "ok" ELSE "noop"]

\* Variant: a successful tactic does not return.
NextTacticNoStop(tried) ==
    CASE Len(tried) = 0 -> "direct"
      [] Len(tried) = 1 -> "scrolled"
      [] Len(tried) = 2 -> "scripted"
      [] OTHER -> "return"

\* Which tactic runs after the tactics tried so far; "return" when none.
NextTactic(tried) ==
    IF tried # <<>> /\ tried[Len(tried)].outcome = "ok" THEN "return"
    ELSE CASE Len(tried) = 0 -> "direct"
           [] Len(tried) = 1 -> "scrolled"
           [] Len(tried) = 2 -> "scripted"
           [] OTHER -> "return"

\* Variant: the scripted tactic runs outside a try block.
TacticExceptScripted(tactic) ==
    IF tactic = "scripted" THEN "propagate" ELSE "swallow"

\* The exception handler around a tactic: log and fall through.
TacticExcept(tactic) == "swallow"

RECURSIVE RunTactics(_, _, _, _)
RunTactics(tried, action, text, o) ==
    LET nt == NextTactic(tried)
    IN IF nt = "return"
       THEN [ok |-> tried # <<>> /\ tried[Len(tried)].outcome = "ok",
             raised |-> FALSE, tried |-> tried]
       ELSE LET t == Tactic(nt, action, text, o[Len(tried) + 1])
            IN IF t.outcome = "fault" /\ TacticExcept(nt) # "swallow"
               THEN [ok |-> FALSE, raised |-> TRUE, tried |-> Append(tried, t)]
               ELSE RunTactics(Append(tried, t), action, text, o)

try_interact_with_element(element, action, text, o) ==
    IF element = NoElem
    THEN [element |-> element, action |-> action, text |-> text,
          ok |-> FALSE, raised |-> FALSE, tried |-> <<>>]
    ELSE LET r == RunTactics(<<>>, action, text, o)
         IN [element |-> element, action |-> action, text |-> text,
             ok |-> r.ok, raised |-> r.raised, tried |-> r.tried]

\* The fault oracles of one call: for each tactic, whether one of its
\* session calls raises (always, on a closed or missing session).
Faults(calls) ==
    IF calls = <<>> THEN {FALSE} ELSE IF SessionUp THEN BOOLEAN ELSE {TRUE}
Oracles(action, text) ==
    { <<f1, f2, f3>> : f1 \in Faults(Calls("direct", action, text)),
                       f2 \in Faults(Calls("scrolled", action, text)),
                       f3 \in Faults(Calls("scripted", action, text)) }

\* The content of a text field, as the texts typed into it since it was
\* last emptied, after one session call of a tactic.
FieldAfterCall(call, value, text) ==
    CASE call \in {"clear", "js_clear"} -> <<>>
      [] call = "send_keys" -> Append(value, text)
      [] call = "js_set" -> <<text>>
      [] OTHER -> value

\* The content of the field after the session calls of a tactic that
\* returned True.
RECURSIVE FieldAfter(_, _, _)
FieldAfter(calls, value, text) ==
    IF calls = <<>> THEN value
    ELSE FieldAfter(Tail(calls), FieldAfterCall(Head(calls), value, text), text)

\* The content of the field at the moment the tactic hands the text over:
\* element.send_keys(text), or the script that assigns the value.
RECURSIVE FieldWhenSent(_, _, _)
FieldWhenSent(calls, value, text) ==
    IF calls = <<>> \/ Head(calls) \in {"send_keys", "js_set"} THEN value
    ELSE FieldWhenSent(Tail(calls), FieldAfterCall(Head(calls), value, text), text)

\* The session calls of the tactic of an interaction that returned True.
LastCalls(r) == Calls(r.tried[Len(r.tried)].tactic, r.action, r.text)

NoInteraction ==
    [element |-> NoElem, action |-> "none", text |-> None,
     ok |-> FALSE, raised |-> FALSE, tried |-> <<>>]

----------------------------------------------------------------------------
(* wait_for_page_ready: every outcome of its waits ends in a normal return *)

ReadyOutcomes ==
    IF SessionUp
    THEN {"complete", "load_timeout", "load_fault", "jquery_timeout", "jquery_fault"}
    ELSE {"load_fault"}

\* Variant: the handler of the outer try is missing.
wait_for_page_ready_unhandled(o) ==
    IF o \in {"load_timeout", "load_fault"} THEN "raised" ELSE "returned"

wait_for_page_ready(o) ==
    CASE o = "complete" -> "returned"
      [] o \in {"jquery_timeout", "jquery_fault"} -> "returned"
      [] o \in {"load_timeout", "load_fault"} -> "returned"

----------------------------------------------------------------------------
(* State shared by the operations.                                         *)

NoUrl == <<>>
NoLoc ==
    [iframes |-> 0, username_field |-> NoElem, password_field |-> NoElem,
     submit_button |-> NoElem, current_url |-> NoUrl, markers |-> <<>>,
     url_field |-> NoElem, first_submit_button |-> NoElem,
     title_field |-> NoElem, save_button |-> NoElem,
     tier |-> 0, link_elements |-> <<>>, k |-> 1, links |-> <<>>,
     found |-> 0, containers |-> 0,
     url_value |-> <<>>, enter_over |-> None,
     save_kind |-> "", save_on_page |-> FALSE, save_fault |-> FALSE]

NoArgs ==
    [username |-> None, password |-> None, url |-> None, title |-> None,
     description |-> None, tags |-> None, private |-> FALSE, limit |-> 0]

NoResolve == [plan |-> "none", seen |-> <<>>, chosen |-> NoElem]

\* A live site: every read of the session can give anything, every time.
Live == [live |-> TRUE, modern |-> 0, n |-> 0, tag |-> "a", anchors |-> <<>>,
         shift |-> 0, scan |-> "ok"]
NoPrev == [set |-> FALSE, limit |-> 0, ret |-> "none", links |-> <<>>]

\* What a read of the session can give: anything in S on a live site, and
\* what the page holds on a fixed page.
From(S, held) == IF page.live THEN S ELSE {held}
StartResolve(plan) == [plan |-> plan, seen |-> <<>>, chosen |-> NoElem]

Init ==
    /\ driver = "None"
    /\ is_logged_in = FALSE
    /\ pc = "idle"
    /\ op = "none"
    /\ args = NoArgs
    /\ ret = "none"
    /\ loc = NoLoc
    /\ i = 1
    /\ fr = 1
    /\ ctx = 0
    /\ ia = NoInteraction
    /\ resolve = NoResolve
    /\ steps = <<>>
    /\ acted = FALSE
    /\ everLoginTrue = FALSE
    /\ page = Live
    /\ prev = NoPrev


----------------------------------------------------------------------------
(* Helpers of the operations.                                              *)

\* A return statement or an escaping exception: the call is over and its
\* result is with the caller.
Return(r) == pc' = "done" /\ ret' = r

StepLabel(name, ok) == name \o (IF ok THEN ":ok" ELSE ":fail")
Did(label) == \E k \in 1..Len(steps) : steps[k] = label

\* Variant: the result of the interaction is not looked at.
AfterInteractionIgnored(ok, next) == next

\* `if not self.try_interact_with_element(...): return False`
AfterInteraction(ok, next) == IF ok THEN next ELSE "done"

\* Variant: `elements[-1]`.
PickLast(elements) == elements[Len(elements)]

\* `elements[0]`: the element a selector loop takes from a non-empty match.
PickFirst(elements) == elements[1]

Observed(r) == IF IsHit(r) THEN r ELSE <<>>

\* One iteration of a `for selector in selectors: try ... except: continue`
\* loop: query rule i; on a non-empty match take its first element and
\* break, otherwise go on to the next rule.
SelectorStep(plan, field, hitPc, missPc) ==
    \E r \in FindOutcomes :
        /\ resolve' = [resolve EXCEPT !.seen = Append(@, Observed(r)),
                                      !.chosen = IF IsHit(r) THEN PickFirst(r) ELSE NoElem]
        /\ IF IsHit(r)
           THEN /\ loc' = [loc EXCEPT ![field] = PickFirst(r)]
                /\ pc' = hitPc
                /\ i' = 1
           ELSE /\ UNCHANGED loc
                /\ IF i < Len(plan)
                   THEN pc' = pc /\ i' = i + 1
                   ELSE pc' = missPc /\ i' = 1
        /\ ret' = IF pc' = "done" THEN "False" ELSE ret
        /\ acted' = TRUE
        /\ ia' = NoInteraction
        /\ UNCHANGED <<driver, is_logged_in, op, args, fr, ctx,
                       steps, everLoginTrue>>

\* check_for_iframes: the iframes found, [] when anything inside raises.
check_for_iframes(n) == IF n < 0 THEN 0 ELSE n
IframeOutcomes == IF SessionUp THEN -1..MaxIframes ELSE {-1}

----------------------------------------------------------------------------
(* start_driver and close.                                                 *)

start_driver ==
    /\ pc = "idle"
    /\ op' = "start_driver"
    /\ \E o \in {"ok", "firefox_fault", "resize_fault"} :
        /\ driver' = IF o = "firefox_fault" THEN driver ELSE "live"
        /\ ret' = IF o = "ok" THEN "returned" ELSE "raise"
        /\ ctx' = IF o = "firefox_fault" THEN ctx ELSE 0
    /\ args' = NoArgs /\ loc' = NoLoc /\ i' = 1 /\ fr' = 1
    /\ ia' = NoInteraction /\ resolve' = NoResolve /\ steps' = <<>>
    /\ acted' = FALSE
    /\ pc' = "done"
    /\ UNCHANGED <<is_logged_in, everLoginTrue>>
    /\ UNCHANGED <<page, prev>>

\* Variant: close forgets the driver after quitting it.
DriverAfterCloseForgotten(o, d) == IF o = "ok" THEN "None" ELSE d

\* self.driver.quit(): the attribute keeps the reference to the driver.
DriverAfterClose(o, d) == IF o = "ok" THEN "quit" ELSE d

close ==
    /\ pc = "idle"
    /\ op' = "close"
    /\ IF driver = "None"
       THEN ret' = "returned" /\ UNCHANGED driver
       ELSE \E o \in {"ok", "fault"} :
              /\ driver' = DriverAfterClose(o, driver)
              /\ ret' = IF o = "ok" THEN "returned" ELSE "raise"
    /\ args' = NoArgs /\ loc' = NoLoc /\ i' = 1 /\ fr' = 1
    /\ ia' = NoInteraction /\ resolve' = NoResolve /\ steps' = <<>>
    /\ acted' = (driver # "None")
    /\ pc' = "done"
    /\ UNCHANGED <<is_logged_in, ctx, everLoginTrue>>
    /\ UNCHANGED <<page, prev>>

----------------------------------------------------------------------------
(* try_interact_with_element called by the user of the client.             *)

try_interact_call ==
    /\ pc = "idle"
    /\ op' = "try_interact_with_element"
    /\ \E element \in Elems \cup {NoElem}, action \in {"click", "send_keys"},
          text \in Texts \cup {None, ENTER} :
        \E o \in Oracles(action, text) :
            LET r == try_interact_with_element(element, action, text, o)
            IN /\ ia' = r
               /\ ret' = IF r.raised THEN "raise" ELSE IF r.ok THEN "True" ELSE "False"
               /\ acted' = (r.tried # <<>>)
    /\ args' = NoArgs /\ loc' = NoLoc /\ i' = 1 /\ fr' = 1
    /\ resolve' = NoResolve /\ steps' = <<>>
    /\ pc' = "done"
    /\ UNCHANGED <<driver, is_logged_in, ctx, everLoginTrue>>
    /\ UNCHANGED <<page, prev>>

\* wait_for_page_ready called by the user of the client.
wait_for_page_ready_call ==
    /\ pc = "idle"
    /\ op' = "wait_for_page_ready"
    /\ \E w \in ReadyOutcomes :
         /\ steps' = <<w>>
         /\ ret' = IF wait_for_page_ready(w) = "returned" THEN "None" ELSE "raise"
    /\ args' = NoArgs /\ loc' = NoLoc /\ i' = 1 /\ fr' = 1
    /\ ia' = NoInteraction /\ resolve' = NoResolve
    /\ acted' = TRUE
    /\ pc' = "done"
    /\ UNCHANGED <<driver, is_logged_in, ctx, everLoginTrue>>
    /\ UNCHANGED <<page, prev>>

\* The caller has the result of the call; the frame of the call is gone.
returned ==
    /\ pc = "done"
    /\ pc' = "idle"
    /\ op' = "none" /\ args' = NoArgs /\ ret' = "none"
    /\ loc' = NoLoc /\ i' = 1 /\ fr' = 1
    /\ ia' = NoInteraction /\ resolve' = NoResolve /\ steps' = <<>>
    /\ acted' = FALSE
    /\ prev' = IF page.live THEN prev
               ELSE [set |-> TRUE, limit |-> args.limit, ret |-> ret, links |-> loc.links]
    /\ UNCHANGED <<driver, is_logged_in, ctx, everLoginTrue>>
    /\ UNCHANGED page

----------------------------------------------------------------------------
(* login.                                                                  *)

\* Variant: the handlers of login re-raise.
LoginExceptReraise == "raise"

\* `except TimeoutException` / `except Exception` around the body of login.
LoginExcept == "False"

InputTypes == {"text", "password", "submit", "button", "hidden", None}
NotUsernameTypes == {"password", "submit", "button", "hidden"}

RECURSIVE SeqsUpTo(_, _)
SeqsUpTo(S, n) ==
    IF n = 0 THEN {<<>>}
    ELSE LET shorter == SeqsUpTo(S, n - 1)
         IN shorter \cup { Append(q, x) : q \in {t \in shorter : Len(t) = n - 1}, x \in S }

\* Approach 2: the first text input of the first form that has one.
RECURSIVE FirstTextInput(_)
FirstTextInput(forms) ==
    IF forms = <<>> THEN NoElem
    ELSE IF Head(forms) # <<>> THEN Head(forms)[1]
    ELSE FirstTextInput(Tail(forms))

\* Approach 3: the first input whose type is not one of the excluded types.
FirstOtherInput(types) ==
    IF \E k \in 1..Len(types) : types[k] \notin NotUsernameTypes
    THEN CHOOSE k \in 1..Len(types) :
            /\ types[k] \notin NotUsernameTypes
            /\ \A j \in 1..(k - 1) : types[j] \in NotUsernameTypes
    ELSE NoElem

\* if not self.driver: raise RuntimeError(...)
LoginPrecondition == driver # "None"

login ==
    /\ pc = "idle"
    /\ op' = "login"
    /\ \E username \in Texts, password \in Texts :
          args' = [NoArgs EXCEPT !.username = username, !.password = password]
    /\ IF ~LoginPrecondition
       THEN Return("raise")
       ELSE pc' = "login_get" /\ ret' = "none"
    /\ loc' = NoLoc /\ i' = 1 /\ fr' = 1
    /\ ia' = NoInteraction /\ resolve' = NoResolve /\ steps' = <<>>
    /\ acted' = FALSE
    /\ UNCHANGED <<driver, is_logged_in, ctx, everLoginTrue>>
    /\ UNCHANGED <<page, prev>>

\* driver.get(login_url); wait_for_page_ready(); check_for_iframes()
login_get ==
    /\ pc = "login_get"
    /\ acted' = TRUE
    /\ steps' = Append(steps, "get")
    /\ \E o \in CallOutcomes :
         IF o = "fault"
         THEN /\ Return(LoginExcept)
              /\ UNCHANGED <<loc, ctx>>
         ELSE /\ ctx' = 0
              /\ \E w \in ReadyOutcomes, n \in IframeOutcomes :
                   IF wait_for_page_ready(w) # "returned"
                   THEN Return(LoginExcept) /\ UNCHANGED loc
                   ELSE /\ loc' = [loc EXCEPT !.iframes = check_for_iframes(n)]
                        /\ pc' = "login_wait_inputs"
                        /\ UNCHANGED ret
    /\ ia' = NoInteraction
    /\ UNCHANGED <<driver, is_logged_in, op, args, i, fr, resolve, everLoginTrue>>
    /\ UNCHANGED <<page, prev>>

\* wait.until(presence_of_element_located((By.TAG_NAME, "input")))
login_wait_inputs ==
    /\ pc = "login_wait_inputs"
    /\ \E o \in (IF SessionUp THEN {"present", "timeout", "fault"} ELSE {"fault"}) :
         CASE o = "present" ->
                /\ pc' = "login_username_selectors"
                /\ steps' = Append(steps, "inputs")
                /\ resolve' = StartResolve("username")
                /\ UNCHANGED ret
           [] o = "timeout" ->
                /\ Return("False")
                /\ UNCHANGED <<steps, resolve>>
           [] o = "fault" ->
                /\ Return(LoginExcept)
                /\ UNCHANGED <<steps, resolve>>
    /\ i' = 1
    /\ ia' = NoInteraction
    /\ UNCHANGED <<driver, is_logged_in, op, args, loc, fr, ctx, acted,
                   everLoginTrue>>
    /\ UNCHANGED <<page, prev>>

login_username_selectors ==
    /\ pc = "login_username_selectors"
    /\ SelectorStep(username_selectors, "username_field",
                    "login_enter_username", "login_username_form")
    /\ UNCHANGED <<page, prev>>

\* Approach 2: first text input in a form.
login_username_form ==
    /\ pc = "login_username_form"
    /\ \E forms \in SeqsUpTo(FindResults, MaxForms), o \in CallOutcomes :
         LET found == IF o = "fault" THEN NoElem ELSE FirstTextInput(forms)
         IN /\ loc' = [loc EXCEPT !.username_field = found]
            /\ pc' = IF found # NoElem THEN "login_enter_username"
                     ELSE "login_username_any_input"
    /\ ia' = NoInteraction
    /\ UNCHANGED <<driver, is_logged_in, op, args, ret, i, fr, ctx,
                   resolve, steps, acted, everLoginTrue>>
    /\ UNCHANGED <<page, prev>>

\* Approach 3: any input that is not of password/submit/button/hidden type;
\* then, with no field found, the decision to search the iframes.
login_username_any_input ==
    /\ pc = "login_username_any_input"
    /\ \E types \in SeqsUpTo(InputTypes, MaxElems), o \in CallOutcomes :
         LET found == IF o = "fault" THEN NoElem ELSE FirstOtherInput(types)
         IN /\ loc' = [loc EXCEPT !.username_field = found]
            /\ IF found # NoElem
               THEN pc' = "login_enter_username" /\ UNCHANGED <<ret, steps>>
               ELSE IF loc.iframes > 0
                    THEN /\ pc' = "login_iframe_switch"
                         /\ steps' = Append(steps, "iframes")
                         /\ UNCHANGED ret
                    ELSE Return("False") /\ UNCHANGED steps
    /\ fr' = 1
    /\ ia' = NoInteraction
    /\ UNCHANGED <<driver, is_logged_in, op, args, i, ctx,
                   resolve, acted, everLoginTrue>>
    /\ UNCHANGED <<page, prev>>

\* After an iframe that did not hold the field: the next iframe, or the
\* `if not username_field: return False` that follows the loop.
NextIframe ==
    IF fr < loc.iframes
    THEN /\ fr' = fr + 1
         /\ pc' = "login_iframe_switch"
         /\ UNCHANGED ret
    ELSE /\ fr' = fr
         /\ Return("False")

\* self.driver.switch_to.frame(iframe); when it raises, the handler of the
\* iframe loop switches back to the default content.
login_iframe_switch ==
    /\ pc = "login_iframe_switch"
    /\ \E o \in CallOutcomes, back \in CallOutcomes :
         IF o = "ok"
         THEN /\ ctx' = fr
              /\ pc' = "login_iframe_selectors"
              /\ resolve' = StartResolve("iframe")
              /\ UNCHANGED <<ret, fr, steps>>
         ELSE /\ UNCHANGED resolve
              /\ IF back = "ok"
                 THEN ctx' = 0 /\ NextIframe /\ UNCHANGED steps
                 ELSE /\ Return(LoginExcept)
                      /\ steps' = Append(steps, "restore:fail")
                      /\ UNCHANGED <<ctx, fr>>
    /\ i' = 1
    /\ acted' = TRUE
    /\ ia' = NoInteraction
    /\ UNCHANGED <<driver, is_logged_in, op, args, loc, everLoginTrue>>
    /\ UNCHANGED <<page, prev>>

\* The first 5 username selectors inside the iframe; a hit leaves both loops.
login_iframe_selectors ==
    /\ pc = "login_iframe_selectors"
    /\ SelectorStep(iframe_selectors, "username_field",
                    "login_enter_username", "login_iframe_restore")
    /\ UNCHANGED <<page, prev>>

\* Variant: the loop goes on to the next iframe without switching back.
login_iframe_restore_skipped ==
    /\ pc = "login_iframe_restore"
    /\ NextIframe
    /\ ia' = NoInteraction
    /\ UNCHANGED <<driver, is_logged_in, op, args, loc, i, ctx, resolve,
                   steps, acted, everLoginTrue>>
    /\ UNCHANGED <<page, prev>>

\* self.driver.switch_to.default_content() after an iframe without the
\* field, and again in the handler when the first call raises.
login_iframe_restore ==
    /\ pc = "login_iframe_restore"
    /\ \E o \in CallOutcomes, again \in CallOutcomes :
         IF o = "ok" \/ again = "ok"
         THEN ctx' = 0 /\ NextIframe /\ UNCHANGED steps
         ELSE /\ Return(LoginExcept)
              /\ steps' = Append(steps, "restore:fail")
              /\ UNCHANGED <<ctx, fr>>
    /\ ia' = NoInteraction
    /\ UNCHANGED <<driver, is_logged_in, op, args, loc, i, resolve,
                   acted, everLoginTrue>>
    /\ UNCHANGED <<page, prev>>

\* try_interact_with_element(username_field, "send_keys", username)
login_enter_username ==
    /\ pc = "login_enter_username"
    /\ \E o \in Oracles("send_keys", args.username) :
         LET r == try_interact_with_element(loc.username_field, "send_keys",
                                            args.username, o)
         IN /\ ia' = r
            /\ steps' = Append(steps, StepLabel("username", r.ok))
            /\ IF r.raised THEN Return(LoginExcept)
               ELSE LET next == AfterInteraction(r.ok, "login_password_selectors")
                    IN IF next = "done" THEN Return("False")
                       ELSE pc' = next /\ UNCHANGED ret
    /\ loc' = [loc EXCEPT !.username_field = NoElem, !.iframes = 0]
    /\ resolve' = StartResolve("password")
    /\ i' = 1
    /\ UNCHANGED <<driver, is_logged_in, op, args, fr, ctx, acted,
                   everLoginTrue>>
    /\ UNCHANGED <<page, prev>>

login_password_selectors ==
    /\ pc = "login_password_selectors"
    /\ SelectorStep(password_selectors, "password_field",
                    "login_enter_password", "login_password_by_type")
    /\ UNCHANGED <<page, prev>>

\* The extra find_elements(By.CSS_SELECTOR, "input[type='password']").
login_password_by_type ==
    /\ pc = "login_password_by_type"
    /\ \E r \in FindOutcomes :
         IF IsHit(r)
         THEN /\ loc' = [loc EXCEPT !.password_field = PickFirst(r)]
              /\ pc' = "login_enter_password"
              /\ UNCHANGED ret
         ELSE /\ Return("False")
              /\ UNCHANGED loc
    /\ ia' = NoInteraction
    /\ UNCHANGED <<driver, is_logged_in, op, args, i, fr, ctx, resolve,
                   steps, acted, everLoginTrue>>
    /\ UNCHANGED <<page, prev>>

\* try_interact_with_element(password_field, "send_keys", password)
login_enter_password ==
    /\ pc = "login_enter_password"
    /\ \E o \in Oracles("send_keys", args.password) :
         LET r == try_interact_with_element(loc.password_field, "send_keys",
                                            args.password, o)
         IN /\ ia' = r
            /\ steps' = Append(steps, StepLabel("password", r.ok))
            /\ IF r.raised THEN Return(LoginExcept)
               ELSE LET next == AfterInteraction(r.ok, "login_submit_selectors")
                    IN IF next = "done" THEN Return("False")
                       ELSE pc' = next /\ UNCHANGED ret
    /\ resolve' = StartResolve("submit")
    /\ i' = 1
    /\ UNCHANGED <<driver, is_logged_in, op, args, loc, fr, ctx, acted,
                   everLoginTrue>>
    /\ UNCHANGED <<page, prev>>

login_submit_selectors ==
    /\ pc = "login_submit_selectors"
    /\ SelectorStep(submit_selectors, "submit_button", "login_submit", "login_submit")
    /\ UNCHANGED <<page, prev>>

\* Click the submit button, or send the Enter key to the password field
\* when there is no button or the click failed.
login_submit ==
    /\ pc = "login_submit"
    /\ IF loc.submit_button = NoElem
       THEN \E e \in CallOutcomes :
              /\ steps' = Append(steps, StepLabel("enter", e = "ok"))
              /\ IF e = "ok" THEN pc' = "login_check" /\ UNCHANGED ret
                 ELSE Return("False")
              /\ ia' = NoInteraction
       ELSE \E o \in Oracles("click", None), e \in CallOutcomes :
              LET r == try_interact_with_element(loc.submit_button, "click", None, o)
              IN /\ ia' = r
                 /\ IF r.raised
                    THEN /\ Return(LoginExcept)
                         /\ steps' = Append(steps, StepLabel("submit", FALSE))
                    ELSE IF r.ok
                    THEN /\ pc' = "login_check" /\ UNCHANGED ret
                         /\ steps' = Append(steps, StepLabel("submit", TRUE))
                    ELSE /\ steps' = steps \o <<StepLabel("submit", FALSE),
                                               StepLabel("enter", e = "ok")>>
                         /\ IF e = "ok" THEN pc' = "login_check" /\ UNCHANGED ret
                            ELSE Return("False")
    /\ loc' = [loc EXCEPT !.password_field = NoElem, !.submit_button = NoElem]
    /\ resolve' = NoResolve
    /\ UNCHANGED <<driver, is_logged_in, op, args, i, fr, ctx,
                   acted, everLoginTrue>>
    /\ UNCHANGED <<page, prev>>

\* _is_logged_in: any of the three partial-link-text lookups is non-empty;
\* False when a lookup raises.
is_logged_in_markers(m) ==
    IF \E k \in 1..Len(m) : m[k] = Fault THEN FALSE
    ELSE \E k \in 1..Len(m) : m[k] # <<>>

\* Variant: the success test with `and` in place of `or`.
LoginSucceededBoth(current_url, m) ==
    ~Contains(current_url, "login") /\ is_logged_in_markers(m)

\* if "login" not in current_url or self._is_logged_in(): ...
LoginSucceeded(current_url, m) ==
    ~Contains(current_url, "login") \/ is_logged_in_markers(m)

\* time.sleep(3); current_url = self.driver.current_url; the success test.
\* The page after the submission is its URL and, for each of the three
\* marker lookups, what the lookup gives.
\* Variant: a login that fails withdraws the flag.
FlagAfterLoginReset(succeeded, flag) == succeeded

\* self.is_logged_in = True on success; the else branch leaves the flag.
FlagAfterLogin(succeeded, flag) == IF succeeded THEN TRUE ELSE flag

login_check ==
    /\ pc = "login_check"
    /\ steps' = Append(steps, "check")
    /\ \E o \in CallOutcomes :
         IF o = "fault"
         THEN /\ Return(LoginExcept)
              /\ UNCHANGED <<loc, is_logged_in, everLoginTrue>>
         ELSE \E current_url \in Urls, m \in LinkOutcomes \X LinkOutcomes \X LinkOutcomes :
                /\ loc' = [loc EXCEPT !.current_url = current_url, !.markers = m]
                /\ is_logged_in' =
                       FlagAfterLogin(LoginSucceeded(current_url, m), is_logged_in)
                /\ IF LoginSucceeded(current_url, m)
                   THEN /\ everLoginTrue' = TRUE
                        /\ Return("True")
                   ELSE /\ Return("False")
                        /\ UNCHANGED everLoginTrue
    /\ ia' = NoInteraction
    /\ UNCHANGED <<driver, op, args, i, fr, ctx, resolve, acted>>
    /\ UNCHANGED <<page, prev>>

----------------------------------------------------------------------------
(* add_url.                                                                *)

\* `except TimeoutException` / `except Exception` around the body of add_url.
AddUrlExcept == "False"

\* if not self.driver: raise ...; if not self.is_logged_in: raise ...
AddUrlPrecondition == driver # "None" /\ is_logged_in

add_url ==
    /\ pc = "idle"
    /\ op' = "add_url"
    /\ \E url \in Texts, title \in Texts, description \in Texts, tags \in Texts,
          private \in BOOLEAN :
          args' = [NoArgs EXCEPT !.url = url, !.title = title,
                                 !.description = description, !.tags = tags,
                                 !.private = private]
    /\ IF ~AddUrlPrecondition
       THEN Return("raise")
       ELSE pc' = "add_url_get" /\ ret' = "none"
    /\ loc' = NoLoc /\ i' = 1 /\ fr' = 1
    /\ ia' = NoInteraction /\ resolve' = NoResolve /\ steps' = <<>>
    /\ acted' = FALSE
    /\ UNCHANGED <<driver, is_logged_in, ctx, everLoginTrue>>
    /\ UNCHANGED <<page, prev>>

\* driver.get(add_url_page); wait_for_page_ready()
add_url_get ==
    /\ pc = "add_url_get"
    /\ acted' = TRUE
    /\ steps' = Append(steps, "get")
    /\ \E o \in CallOutcomes :
         IF o = "fault"
         THEN /\ Return(AddUrlExcept)
              /\ UNCHANGED <<ctx, resolve>>
         ELSE /\ ctx' = 0
              /\ \E w \in ReadyOutcomes :
                   IF wait_for_page_ready(w) # "returned"
                   THEN Return(AddUrlExcept) /\ UNCHANGED resolve
                   ELSE /\ pc' = "add_url_url_selectors"
                        /\ resolve' = StartResolve("url")
                        /\ UNCHANGED ret
    /\ i' = 1
    /\ ia' = NoInteraction
    /\ UNCHANGED <<driver, is_logged_in, op, args, loc, fr, everLoginTrue>>
    /\ UNCHANGED <<page, prev>>

add_url_url_selectors ==
    /\ pc = "add_url_url_selectors"
    /\ SelectorStep(url_selectors, "url_field", "add_url_enter_url", "done")
    /\ UNCHANGED <<page, prev>>

\* try_interact_with_element(url_field, "send_keys", url)
add_url_enter_url ==
    /\ pc = "add_url_enter_url"
    /\ \E o \in Oracles("send_keys", args.url) :
         LET r == try_interact_with_element(loc.url_field, "send_keys", args.url, o)
         IN /\ ia' = r
            /\ steps' = Append(steps, StepLabel("url", r.ok))
            /\ IF r.raised THEN Return(AddUrlExcept)
               ELSE LET next == AfterInteraction(r.ok, "add_url_first_submit_selectors")
                    IN IF next = "done" THEN Return("False")
                       ELSE pc' = next /\ UNCHANGED ret
            /\ loc' = IF r.ok
                      THEN [loc EXCEPT !.url_value =
                                FieldAfter(LastCalls(r), loc.url_value, args.url)]
                      ELSE loc
    /\ resolve' = StartResolve("first_submit")
    /\ i' = 1
    /\ UNCHANGED <<driver, is_logged_in, op, args, fr, ctx, acted,
                   everLoginTrue>>
    /\ UNCHANGED <<page, prev>>

add_url_first_submit_selectors ==
    /\ pc = "add_url_first_submit_selectors"
    /\ SelectorStep(first_submit_selectors, "first_submit_button",
                    "add_url_first_submit", "add_url_first_submit")
    /\ UNCHANGED <<page, prev>>

\* Variant: no Enter-key fallback, the button is clicked in every case.
FirstSubmitNoFallback(first_submit_button, url_field) ==
    [element |-> first_submit_button, action |-> "click", text |-> None,
     name |-> "first_submit"]

\* Click the step-one submit button, or, without one, send the Enter key
\* to the URL field; then time.sleep(2) and wait_for_page_ready().
FirstSubmit(first_submit_button, url_field) ==
    IF first_submit_button # NoElem
    THEN [element |-> first_submit_button, action |-> "click", text |-> None,
          name |-> "first_submit"]
    ELSE [element |-> url_field, action |-> "send_keys", text |-> ENTER,
          name |-> "enter"]

add_url_first_submit ==
    /\ pc = "add_url_first_submit"
    /\ LET how == FirstSubmit(loc.first_submit_button, loc.url_field)
       IN \E o \in Oracles(how.action, how.text), w \in ReadyOutcomes :
            LET r == try_interact_with_element(how.element, how.action, how.text, o)
                next == AfterInteraction(r.ok, "add_url_title_selectors")
            IN /\ ia' = r
               /\ steps' = Append(steps, StepLabel(how.name, r.ok))
               /\ IF r.raised THEN Return(AddUrlExcept)
                  ELSE IF next = "done" THEN Return("False")
                  ELSE IF wait_for_page_ready(w) # "returned" THEN Return(AddUrlExcept)
                  ELSE pc' = next /\ UNCHANGED ret
               /\ loc' = [loc EXCEPT
                            !.url_field = NoElem, !.first_submit_button = NoElem,
                            !.enter_over =
                                IF how.name = "enter" /\ r.ok
                                THEN FieldWhenSent(LastCalls(r), loc.url_value, how.text)
                                ELSE None,
                            !.url_value =
                                IF how.name = "enter" /\ r.ok
                                THEN FieldAfter(LastCalls(r), loc.url_value, how.text)
                                ELSE loc.url_value]
    /\ resolve' = StartResolve("title")
    /\ i' = 1
    /\ UNCHANGED <<driver, is_logged_in, op, args, fr, ctx, acted,
                   everLoginTrue>>
    /\ UNCHANGED <<page, prev>>

add_url_title_selectors ==
    /\ pc = "add_url_title_selectors"
    /\ SelectorStep(title_selectors, "title_field", "add_url_fill_title", "done")
    /\ UNCHANGED <<page, prev>>

\* Where add_url goes on from one of its optional blocks: the next block
\* whose argument was supplied, or the search for the Save button.
AfterTitle ==
    IF Truthy(args.description) THEN "add_url_description"
    ELSE IF Truthy(args.tags) THEN "add_url_tags"
    ELSE IF args.private THEN "add_url_private"
    ELSE "add_url_save_selectors"

AfterDescription ==
    IF Truthy(args.tags) THEN "add_url_tags"
    ELSE IF args.private THEN "add_url_private"
    ELSE "add_url_save_selectors"

AfterTags ==
    IF args.private THEN "add_url_private" ELSE "add_url_save_selectors"

PlanAt(p) ==
    CASE p = "add_url_description" -> "description"
      [] p = "add_url_tags" -> "tags"
      [] p = "add_url_private" -> "private"
      [] p = "add_url_save_selectors" -> "save"

\* Variant: a failed fill of the title field ends the workflow.
TitleFillFatal(next) == "done"

\* What a failed fill of the title field does to the workflow.
TitleFillFailed(next) == next

\* if title: try_interact_with_element(title_field, "send_keys", title)
add_url_fill_title ==
    /\ pc = "add_url_fill_title"
    /\ IF Truthy(args.title)
       THEN \E o \in Oracles("send_keys", args.title) :
              LET r == try_interact_with_element(loc.title_field, "send_keys",
                                                 args.title, o)
              IN /\ ia' = r
                 /\ steps' = steps \o <<"title_field", StepLabel("title", r.ok)>>
                 /\ IF r.raised THEN Return(AddUrlExcept)
                    ELSE LET next == IF r.ok THEN AfterTitle
                                     ELSE TitleFillFailed(AfterTitle)
                         IN IF next = "done" THEN Return("False")
                            ELSE pc' = next /\ UNCHANGED ret
       ELSE /\ ia' = NoInteraction
            /\ pc' = AfterTitle
            /\ steps' = Append(steps, "title_field")
            /\ UNCHANGED ret
    /\ loc' = [loc EXCEPT !.title_field = NoElem]
    /\ resolve' = StartResolve(PlanAt(AfterTitle))
    /\ i' = 1
    /\ UNCHANGED <<driver, is_logged_in, op, args, fr, ctx, acted,
                   everLoginTrue>>
    /\ UNCHANGED <<page, prev>>

\* One iteration of the loop of an optional text field: on a match, fill
\* its first element (whatever the result) and break.
OptionalFieldStep(plan, name, text, next) ==
    \E r \in FindOutcomes :
        /\ resolve' = IF IsHit(r) \/ i = Len(plan)
                      THEN StartResolve(PlanAt(next))
                      ELSE resolve
        /\ IF IsHit(r)
           THEN \E o \in Oracles("send_keys", text) :
                  LET t == try_interact_with_element(PickFirst(r), "send_keys", text, o)
                  IN /\ ia' = t
                     /\ steps' = Append(steps, StepLabel(name, t.ok))
                     /\ IF t.raised THEN Return(AddUrlExcept)
                        ELSE pc' = next /\ UNCHANGED ret
                     /\ i' = 1
           ELSE /\ ia' = NoInteraction
                /\ UNCHANGED <<steps, ret>>
                /\ IF i < Len(plan)
                   THEN pc' = pc /\ i' = i + 1
                   ELSE pc' = next /\ i' = 1
        /\ UNCHANGED <<driver, is_logged_in, op, args, loc, fr, ctx, acted,
                       everLoginTrue>>

add_url_description ==
    /\ pc = "add_url_description"
    /\ OptionalFieldStep(desc_selectors, "description", args.description,
                         AfterDescription)
    /\ UNCHANGED <<page, prev>>

add_url_tags ==
    /\ pc = "add_url_tags"
    /\ OptionalFieldStep(tags_selectors, "tags", args.tags, AfterTags)
    /\ UNCHANGED <<page, prev>>

\* Variant: the checkbox is clicked whatever is_selected() says.
ClickAlways(sel) == TRUE

\* if not private_checkbox.is_selected(): the checkbox is clicked.
NotSelected(sel) == sel = "unchecked"

\* The private checkbox: clicked when is_selected() says it is not checked;
\* when is_selected() raises the loop goes on to the next selector.
add_url_private ==
    /\ pc = "add_url_private"
    /\ \E r \in FindOutcomes, sel \in {"checked", "unchecked", "fault"} :
        /\ (~IsHit(r) => sel = "fault")
        /\ (~SessionUp => sel = "fault")
        /\ LET broke == IsHit(r) /\ sel # "fault"
           IN /\ resolve' = IF broke \/ i = Len(private_selectors)
                            THEN StartResolve("save")
                            ELSE resolve
              /\ IF broke /\ NotSelected(sel)
                 THEN \E o \in Oracles("click", None) :
                        LET t == try_interact_with_element(PickFirst(r), "click", None, o)
                        IN /\ ia' = t
                           /\ steps' = steps \o <<"private:" \o sel, StepLabel("private", t.ok)>>
                           /\ IF t.raised THEN Return(AddUrlExcept)
                              ELSE pc' = "add_url_save_selectors" /\ UNCHANGED ret
                           /\ i' = 1
                 ELSE /\ ia' = NoInteraction
                      /\ steps' = IF broke THEN Append(steps, "private:" \o sel) ELSE steps
                      /\ UNCHANGED ret
                      /\ IF ~broke /\ i < Len(private_selectors)
                         THEN pc' = pc /\ i' = i + 1
                         ELSE pc' = "add_url_save_selectors" /\ i' = 1
    /\ UNCHANGED <<driver, is_logged_in, op, args, loc, fr, ctx, acted,
                   everLoginTrue>>
    /\ UNCHANGED <<page, prev>>

\* The controls a second page can hold, by what the save selectors look
\* at: the tag, type="submit", and "Save" in the value or the text.
ControlKinds ==
    {"input_submit_save", "input_submit", "button_submit_save", "button_submit",
     "button_save", "button"}

HasSave(kind) == kind \in {"input_submit_save", "button_submit_save", "button_save"}

\* Whether rule j of save_selectors matches a control of this kind.
SaveMatches(j, kind) ==
    CASE j \in {1, 5} -> kind = "input_submit_save"
      [] j \in {2, 6} -> kind \in {"button_submit_save", "button_submit"}
      [] j \in {3, 8} -> kind \in {"input_submit_save", "input_submit"}
      [] j = 4 -> kind \in {"button_submit_save", "button_submit", "button_save", "button"}
      [] j = 7 -> kind \in {"button_submit_save", "button_save"}

\* The controls of the page (controls[e] is the kind of element e) that
\* rule j finds, in document order.
FindControls(j, controls) ==
    Ascending({e \in 1..Len(controls) : SaveMatches(j, controls[e])})

ControlPages == SeqsUpTo(ControlKinds, MaxElems)

\* The pages on which rule j is the first rule of save_selectors to find
\* anything, and what it finds there.
FirstAt(j) ==
    {controls \in ControlPages :
        /\ FindControls(j, controls) # <<>>
        /\ \A q \in 1..(j - 1) : FindControls(q, controls) = <<>>}

\* The loop over save_selectors.  As long as no lookup of the loop raised,
\* a match of rule i is its match on a page on which the rules before it
\* find nothing; after a lookup that raised, the page is not known.
add_url_save_selectors ==
    /\ pc = "add_url_save_selectors"
    /\ \E r \in (IF loc.save_fault \/ ~SessionUp THEN FindOutcomes
                  ELSE {<<>>, Fault}
                         \cup {FindControls(i, controls) : controls \in FirstAt(i)}) :
        /\ resolve' = [resolve EXCEPT !.seen = Append(@, Observed(r)),
                                      !.chosen = IF IsHit(r) THEN PickFirst(r) ELSE NoElem]
        /\ IF IsHit(r)
           THEN /\ \E controls \in (IF loc.save_fault THEN {<<>>}
                                    ELSE {c \in FirstAt(i) : FindControls(i, c) = r}) :
                     loc' = [loc EXCEPT
                               !.save_button = PickFirst(r),
                               !.save_kind = IF loc.save_fault THEN ""
                                             ELSE controls[PickFirst(r)],
                               !.save_on_page = \E e \in 1..Len(controls) : HasSave(controls[e])]
                /\ pc' = "add_url_save"
                /\ i' = 1
           ELSE /\ loc' = [loc EXCEPT !.save_fault = @ \/ (r = Fault /\ i < Len(save_selectors))]
                /\ IF i < Len(save_selectors)
                   THEN pc' = pc /\ i' = i + 1
                   ELSE pc' = "done" /\ i' = 1
        /\ ret' = IF pc' = "done" THEN "False" ELSE ret
        /\ acted' = TRUE
        /\ ia' = NoInteraction
        /\ UNCHANGED <<driver, is_logged_in, op, args, fr, ctx,
                       steps, everLoginTrue>>
    /\ UNCHANGED <<page, prev>>

\* try_interact_with_element(save_button, "click")
add_url_save ==
    /\ pc = "add_url_save"
    /\ \E o \in Oracles("click", None) :
         LET r == try_interact_with_element(loc.save_button, "click", None, o)
         IN /\ ia' = r
            /\ steps' = Append(steps, StepLabel("save", r.ok))
            /\ IF r.raised THEN Return(AddUrlExcept)
               ELSE LET next == AfterInteraction(r.ok, "add_url_check")
                    IN IF next = "done" THEN Return("False")
                       ELSE pc' = next /\ UNCHANGED ret
    /\ loc' = [loc EXCEPT !.save_button = NoElem, !.save_kind = "",
                          !.save_on_page = FALSE, !.save_fault = FALSE]
    /\ resolve' = NoResolve
    /\ UNCHANGED <<driver, is_logged_in, op, args, i, fr, ctx,
                   acted, everLoginTrue>>
    /\ UNCHANGED <<page, prev>>

\* Variant: the success test with `or` in place of `and`.
AddUrlSucceededEither(current_url) ==
    ~Contains(current_url, "add-shaare") \/ ~Contains(current_url, "admin")

\* if "add-shaare" not in current_url and "admin" not in current_url: ...
AddUrlSucceeded(current_url) ==
    ~Contains(current_url, "add-shaare") /\ ~Contains(current_url, "admin")

\* time.sleep(3); current_url = self.driver.current_url; the success test.
add_url_check ==
    /\ pc = "add_url_check"
    /\ steps' = Append(steps, "check")
    /\ \E o \in CallOutcomes :
         IF o = "fault"
         THEN Return(AddUrlExcept) /\ UNCHANGED loc
         ELSE \E current_url \in Urls :
                /\ loc' = [loc EXCEPT !.current_url = current_url]
                /\ IF AddUrlSucceeded(current_url)
                   THEN Return("True")
                   ELSE Return("False")
    /\ ia' = NoInteraction
    /\ UNCHANGED <<driver, is_logged_in, op, args, i, fr, ctx, resolve,
                   acted, everLoginTrue>>
    /\ UNCHANGED <<page, prev>>

----------------------------------------------------------------------------
(* get_links.  The description and the tags of a record are read inside    *)
(* handlers that swallow every fault and decide nothing; a record is       *)
(* modelled by its url and title.                                          *)

\* `except Exception` around the body of get_links: return [].
GetLinksExcept == <<>>

modern_selectors ==
    <<".linklist .linklist-item", ".bookmark", ".shaare", ".link", "article", ".post">>

container_selectors == <<".main-content", ".content", "#content", "main", ".container">>

link_selectors ==
    <<"a[href*='http']", ".linklist-link", ".bookmark-title a", ".shaare-title a", "a">>

\* href attributes, as token sequences: missing, empty, an external URL, a
\* URL of the site, a non-http URL, an external URL that mentions the site.
HrefNone == <<None>>
HrefEmpty == <<>>
Hrefs == { HrefNone, HrefEmpty, <<"http", "ext">>, <<"http", "base", "page">>,
           <<"mailto", "x">>, <<"http", "ext", "?", "base">> }
HrefTruthy(href) == href \notin {HrefNone, HrefEmpty}

\* Variant: the test without `self.base_url not in href`.
IsExternalAnyHttp(href) ==
    HrefTruthy(href) /\ Contains(href, "http")

\* href and "http" in href and self.base_url not in href
IsExternal(href) ==
    HrefTruthy(href) /\ Contains(href, "http") /\ ~Contains(href, "base")

\* Variant: the candidates are not sliced.
TruncateOff(elements, limit) == elements

\* elements[:limit] for limit >= 0
Truncate(elements, limit) ==
    SubSeq(elements, 1, IF limit < Len(elements) THEN limit ELSE Len(elements))

RECURSIVE Filter(_, _)
Filter(anchors, k) ==
    IF k > Len(anchors) THEN <<>>
    ELSE IF IsExternal(anchors[k])
         THEN <<[idx |-> k, href |-> anchors[k]]>> \o Filter(anchors, k + 1)
         ELSE Filter(anchors, k + 1)

\* The external anchors among the anchors found, in document order.
ExternalLinks(anchors) == Filter(anchors, 1)

\* Variant: approach 3 takes every anchor inside the container.
ContainerLinksUnfiltered(container_links) ==
    [k \in 1..Len(container_links) |-> [idx |-> k, href |-> container_links[k]]]

\* The filter of approach 3: the test of approach 2 once more.
ContainerLinks(container_links) == ExternalLinks(container_links)

AnchorLists == SeqsUpTo(Hrefs, MaxAnchors)

\* text.strip(): visible text that is only white space is empty.
Strip(text) == IF text = " " THEN "" ELSE text

\* Variant: without the "No title" sentinel.
TitleOfNoSentinel(text, label) ==
    IF text # "" THEN text ELSE label

\* text.strip() or get_attribute("title") or "No title"
TitleOf(text, label) ==
    IF Strip(text) # "" THEN Strip(text)
    ELSE IF Truthy(label) THEN label
    ELSE "No title"

LinkTexts == {"", " ", "t"}
LinkLabels == {None, "", "l"}

\* Variant: get_links without its check of the flag.
GetLinksPreconditionNoCheck == TRUE

\* if not self.is_logged_in: raise RuntimeError(...)
GetLinksPrecondition == is_logged_in

\* Variant: the list of the previous call is extended.
InitialLinksKept(kept) == kept

\* links = []
InitialLinks(kept) == <<>>

\* What a fixed page holds.  Its anchors are page.anchors, in document
\* order; when page.modern > 0, rule page.modern of modern_selectors finds
\* page.n elements, each an anchor (element c is anchor c) or a div around
\* one; a `main` element holds all the anchors.  Anchor c has the text and
\* the title attribute that its position gives it.
AnchorAt(c) == IF c <= Len(page.anchors) THEN page.anchors[c] ELSE HrefNone
TextAt(c) ==
    CASE (c + page.shift) % 4 = 0 -> "t"
      [] (c + page.shift) % 4 = 1 -> " "
      [] OTHER -> ""
LabelAt(c) ==
    CASE (c + page.shift) % 4 = 0 -> None
      [] (c + page.shift) % 4 = 1 -> "l"
      [] (c + page.shift) % 4 = 2 -> None
      [] OTHER -> ""
ModernAt(j) == IF j = page.modern THEN page.n ELSE 0
ContainerExists(j) == container_selectors[j] = "main"
ContainerAt(j) == IF ContainerExists(j) THEN page.anchors ELSE <<>>
HasHttp(href) == HrefTruthy(href) /\ Contains(href, "http")
InnerAt(j, c) ==
    LET inner == IF c <= Len(page.anchors) THEN <<page.anchors[c]>> ELSE <<>>
    IN CASE link_selectors[j] = "a[href*='http']" -> SelectSeq(inner, HasHttp)
         [] link_selectors[j] = "a" -> inner
         [] OTHER -> <<>>

\* Against a fixed page a call is repeated with the limit of the call
\* before it.
get_links ==
    /\ pc = "idle"
    /\ op' = "get_links"
    /\ \E limit \in 0..MaxLimit :
         /\ prev.set => limit = prev.limit
         /\ args' = [NoArgs EXCEPT !.limit = limit]
    /\ IF ~GetLinksPrecondition
       THEN Return("raise")
       ELSE pc' = "get_links_get" /\ ret' = "none"
    /\ loc' = [NoLoc EXCEPT !.links = InitialLinks(prev.links)] /\ i' = 1 /\ fr' = 1
    /\ ia' = NoInteraction /\ resolve' = NoResolve /\ steps' = <<>>
    /\ acted' = FALSE
    /\ UNCHANGED <<driver, is_logged_in, ctx, everLoginTrue>>
    /\ UNCHANGED <<page, prev>>

\* Every exit of get_links that hands a list to the caller.
ReturnLinks(links) ==
    /\ Return("list")
    /\ loc' = [loc EXCEPT !.links = links]

\* driver.get(self.base_url); wait_for_page_ready()
get_links_get ==
    /\ pc = "get_links_get"
    /\ acted' = TRUE
    /\ steps' = Append(steps, "get")
    /\ \E o \in From(CallOutcomes, "ok") :
         IF o = "fault"
         THEN ReturnLinks(GetLinksExcept) /\ UNCHANGED ctx
         ELSE /\ ctx' = 0
              /\ \E w \in From(ReadyOutcomes, "complete") :
                   IF wait_for_page_ready(w) # "returned"
                   THEN ReturnLinks(GetLinksExcept)
                   ELSE /\ pc' = "get_links_modern_selectors"
                        /\ UNCHANGED <<ret, loc>>
    /\ i' = 1
    /\ ia' = NoInteraction
    /\ UNCHANGED <<driver, is_logged_in, op, args, fr, resolve, everLoginTrue>>
    /\ UNCHANGED <<page, prev>>

\* What follows the search for candidates: `return []` without any, or
\* the extraction loop.
\* found keeps the number of candidates that the tier saw before the slice,
\* containers the number of page-content containers that tier 3 found to
\* exist.
AfterCascade(tier, link_elements, found, containers) ==
    IF link_elements = <<>>
    THEN /\ Return("list")
         /\ loc' = [loc EXCEPT !.links = <<>>, !.found = found,
                               !.containers = containers]
    ELSE /\ loc' = [loc EXCEPT !.tier = tier, !.link_elements = link_elements,
                              !.k = 1, !.found = found,
                              !.containers = containers]
         /\ pc' = "get_links_extract"
         /\ UNCHANGED ret

\* Approach 1: the first selector that matches supplies elements[:limit].
get_links_modern_selectors ==
    /\ pc = "get_links_modern_selectors"
    /\ \E n \in From(IF SessionUp THEN -1..MaxCands ELSE {-1}, ModernAt(i)) :
         IF n > 0
         THEN LET link_elements ==
                    Truncate([c \in 1..n |-> [idx |-> c, href |-> HrefNone]], args.limit)
              IN /\ i' = 1
                 /\ steps' = (IF i = 1 THEN Append(steps, "tier1") ELSE steps)
                                \o <<"tier1:hit">>
                 /\ IF link_elements # <<>>
                    THEN AfterCascade(1, link_elements, n, 0)
                    ELSE /\ pc' = "get_links_anchor_scan"
                         /\ loc' = [loc EXCEPT !.found = n]
                         /\ UNCHANGED ret
         ELSE /\ UNCHANGED <<ret, loc>>
              /\ steps' = IF i = 1 THEN Append(steps, "tier1") ELSE steps
              /\ IF i < Len(modern_selectors)
                 THEN pc' = pc /\ i' = i + 1
                 ELSE pc' = "get_links_anchor_scan" /\ i' = 1
    /\ ia' = NoInteraction
    /\ UNCHANGED <<driver, is_logged_in, op, args, fr, ctx, resolve, acted,
                   everLoginTrue>>
    /\ UNCHANGED <<page, prev>>

\* Approach 2: all anchors of the page, filtered for external links.
get_links_anchor_scan ==
    /\ pc = "get_links_anchor_scan"
    /\ \E o \in From(CallOutcomes, page.scan) :
       \E potential_links \in
             {ExternalLinks(all_links) :
                all_links \in From(IF o = "fault" THEN {<<>>} ELSE AnchorLists,
                                   page.anchors)} :
         LET link_elements == Truncate(potential_links, args.limit)
         IN /\ steps' = Append(steps, IF o = "fault" THEN "tier2:fault" ELSE "tier2")
            /\ IF link_elements # <<>>
               THEN AfterCascade(2, link_elements, Len(potential_links), 0)
               ELSE /\ pc' = "get_links_containers"
                    /\ loc' = [loc EXCEPT !.found = Len(potential_links)]
                    /\ UNCHANGED ret
    /\ i' = 1
    /\ ia' = NoInteraction
    /\ UNCHANGED <<driver, is_logged_in, op, args, fr, ctx, resolve, acted,
                   everLoginTrue>>
    /\ UNCHANGED <<page, prev>>

\* Variant: the loop breaks at the first container that exists.
ContainerBreaksIfExists(exists, external_links) == exists

\* if external_links: link_elements = external_links[:limit]; break
ContainerBreaks(exists, external_links) == external_links # <<>>

\* Approach 3: the anchors inside a page-content container; the loop breaks
\* only at a container that holds an external anchor.  find_element raises
\* for a container that the page does not have.
get_links_containers ==
    /\ pc = "get_links_containers"
    /\ \E o \in From(CallOutcomes, IF ContainerExists(i) THEN "ok" ELSE "fault") :
       \E external_links \in
             {ContainerLinks(container_links) :
                container_links \in From(IF o = "fault" THEN {<<>>} ELSE AnchorLists,
                                         ContainerAt(i))} :
         LET containers == loc.containers + (IF o = "ok" THEN 1 ELSE 0)
         IN /\ steps' = IF i = 1 THEN Append(steps, "tier3") ELSE steps
            /\ IF ContainerBreaks(o = "ok", external_links)
               THEN /\ AfterCascade(3, Truncate(external_links, args.limit),
                                    Len(external_links), containers)
                    /\ i' = 1
               ELSE IF i < Len(container_selectors)
                    THEN /\ pc' = pc /\ i' = i + 1
                         /\ loc' = [loc EXCEPT !.containers = containers]
                         /\ UNCHANGED ret
                    ELSE /\ AfterCascade(3, <<>>, 0, containers)
                         /\ i' = 1
    /\ ia' = NoInteraction
    /\ UNCHANGED <<driver, is_logged_in, op, args, fr, ctx, resolve, acted,
                   everLoginTrue>>
    /\ UNCHANGED <<page, prev>>

\* A session call raised while a candidate was read (noted once).
Skipped == IF Did("extract:fault") THEN steps ELSE Append(steps, "extract:fault")

\* After element k of the extraction loop: the next element, or
\* `return links`.
NextElement(links) ==
    IF loc.k < Len(loc.link_elements)
    THEN /\ loc' = [loc EXCEPT !.k = loc.k + 1, !.links = links]
         /\ pc' = "get_links_extract"
         /\ UNCHANGED ret
    ELSE ReturnLinks(links)

\* Only add if we have at least a URL.
AddLink(links, idx, url, text, label) ==
    IF HrefTruthy(url)
    THEN Append(links, [url |-> url, title |-> TitleOf(text, label), idx |-> idx])
    ELSE links

\* One element of the extraction loop: an anchor gives its own href and
\* title; a container is searched for a link.  A fault skips the element.
get_links_extract ==
    /\ pc = "get_links_extract"
    /\ LET element == loc.link_elements[loc.k]
       IN \E o \in From(CallOutcomes, "ok"),
             tag_name \in (IF loc.tier = 1 THEN From({"a", "div"}, page.tag) ELSE {"a"}) :
          \E href \in (IF ~(o = "ok" /\ tag_name = "a") THEN {HrefNone}
                       ELSE IF loc.tier # 1 THEN {element.href}
                       ELSE From(Hrefs, AnchorAt(element.idx))),
             text \in (IF ~(o = "ok" /\ tag_name = "a") THEN {""}
                       ELSE From(LinkTexts, TextAt(element.idx))) :
          \E label \in (IF ~(o = "ok" /\ tag_name = "a") \/ Strip(text) # "" THEN {None}
                        ELSE From(LinkLabels, LabelAt(element.idx))) :
            /\ steps' = IF o = "fault" THEN Skipped ELSE steps
            /\ IF o = "fault"
               THEN NextElement(loc.links)
               ELSE IF tag_name = "a"
               THEN NextElement(AddLink(loc.links, element.idx, href, text, label))
               ELSE /\ pc' = "get_links_find_link"
                    /\ UNCHANGED <<ret, loc>>
    /\ i' = 1
    /\ ia' = NoInteraction
    /\ UNCHANGED <<driver, is_logged_in, op, args, fr, ctx, resolve,
                   acted, everLoginTrue>>
    /\ UNCHANGED <<page, prev>>

\* The first external link among the anchors a selector finds.
FirstExternal(found_links) ==
    IF ExternalLinks(found_links) = <<>> THEN HrefNone
    ELSE ExternalLinks(found_links)[1].href

\* The search of a container for its link: the first link selector whose
\* matches include an external link supplies it; a container without one
\* is skipped.
get_links_find_link ==
    /\ pc = "get_links_find_link"
    /\ LET element == loc.link_elements[loc.k]
       IN \E o \in From(CallOutcomes, "ok") :
          \E link_elem \in
                {FirstExternal(found_links) :
                   found_links \in From(IF o = "fault" THEN {<<>>} ELSE AnchorLists,
                                        InnerAt(i, element.idx))} :
               \E after \in (IF link_elem = HrefNone THEN {"fault"}
                             ELSE From(CallOutcomes, "ok")) :
               \E text \in (IF after = "fault" THEN {""}
                            ELSE From(LinkTexts, TextAt(element.idx))) :
               \E label \in (IF after = "fault" \/ Strip(text) # "" THEN {None}
                             ELSE From(LinkLabels, LabelAt(element.idx))) :
               /\ steps' = IF o = "fault" \/ (link_elem # HrefNone /\ after = "fault")
                            THEN Skipped ELSE steps
               /\ IF link_elem # HrefNone
                  THEN /\ i' = 1
                       /\ IF after = "fault"
                          THEN NextElement(loc.links)
                          ELSE NextElement(AddLink(loc.links, element.idx, link_elem,
                                                   text, label))
                  ELSE IF i < Len(link_selectors)
                       THEN /\ pc' = pc /\ i' = i + 1
                            /\ UNCHANGED <<ret, loc>>
                       ELSE /\ NextElement(loc.links)
                            /\ i' = 1
    /\ ia' = NoInteraction
    /\ UNCHANGED <<driver, is_logged_in, op, args, fr, ctx, resolve,
                   acted, everLoginTrue>>
    /\ UNCHANGED <<page, prev>>

----------------------------------------------------------------------------

Next ==
    \/ start_driver \/ close \/ try_interact_call \/ wait_for_page_ready_call
    \/ returned
    \/ login \/ login_get \/ login_wait_inputs
    \/ login_username_selectors \/ login_username_form
    \/ login_username_any_input
    \/ login_iframe_switch \/ login_iframe_selectors \/ login_iframe_restore
    \/ login_enter_username
    \/ login_password_selectors \/ login_password_by_type
    \/ login_enter_password
    \/ login_submit_selectors \/ login_submit \/ login_check
    \/ add_url \/ add_url_get \/ add_url_url_selectors \/ add_url_enter_url
    \/ add_url_first_submit_selectors \/ add_url_first_submit
    \/ add_url_title_selectors \/ add_url_fill_title
    \/ add_url_description \/ add_url_tags \/ add_url_private
    \/ add_url_save_selectors \/ add_url_save \/ add_url_check
    \/ get_links \/ get_links_get \/ get_links_modern_selectors
    \/ get_links_anchor_scan \/ get_links_containers
    \/ get_links_extract \/ get_links_find_link

Spec == Init /\ [][Next]_vars

\* A call that has started goes on: the code is sequential, and each of its
\* waits and sleeps is bounded, so the step after a session call that
\* returned (or raised) is taken.
Running == pc \notin {"idle", "done"}

\* The fairness condition is WF_vars(Running /\ Next), written out as
\* []<>(~ENABLED <<A>>_vars) \/ []<><<A>>_vars for A == Running /\ Next: a
\* running call always has a next step, so <<A>>_vars is enabled exactly
\* when Running holds, and every step of Spec that changes vars is a step
\* of Next.
SpecLive == Spec /\ ([]<>(~Running) \/ []<><<Running /\ TRUE>>_vars)

----------------------------------------------------------------------------
(* get_links called again and again against a page that does not change,   *)
(* by a client that has logged in.                                         *)

Pages ==
    { [live |-> FALSE, modern |-> m, n |-> n, tag |-> t, anchors |-> a, shift |-> s,
       scan |-> f] :
        m \in {0, 1, Len(modern_selectors)}, n \in 0..MaxCands,
        t \in {"a", "div"}, a \in AnchorLists, s \in 0..3, f \in CallOutcomes }

InitTwice ==
    /\ driver = "live"
    /\ is_logged_in = TRUE
    /\ everLoginTrue = TRUE
    /\ pc = "idle"
    /\ op = "none"
    /\ args = NoArgs
    /\ ret = "none"
    /\ loc = NoLoc
    /\ i = 1
    /\ fr = 1
    /\ ctx = 0
    /\ ia = NoInteraction
    /\ resolve = NoResolve
    /\ steps = <<>>
    /\ acted = FALSE
    /\ page \in {p \in Pages : (p.modern = 0) = (p.n = 0) /\ (p.n = 0 => p.tag = "a")}
    /\ prev = NoPrev

NextTwice ==
    \/ get_links \/ get_links_get \/ get_links_modern_selectors
    \/ get_links_anchor_scan \/ get_links_containers
    \/ get_links_extract \/ get_links_find_link
    \/ returned

SpecTwice == InitTwice /\ [][NextTwice]_vars

----------------------------------------------------------------------------
(* Properties.                                                             *)

Last(seq) == seq[Len(seq)]
DidAny(labels) == \E k \in 1..Len(steps) : steps[k] \in labels
Bool == {"True", "False"}

UsernameLabels == {"username:ok", "username:fail"}
PasswordLabels == {"password:ok", "password:fail"}
SubmitLabels == {"submit:ok", "submit:fail", "enter:ok", "enter:fail"}
SaveLabels == {"save:ok", "save:fail"}

\* C1: add_url and get_links raise whenever no earlier login call returned
\* True, login raises whenever the driver was never started, and the call
\* that raises has made no session call.
C1_PreconditionsRaise ==
    /\ (op \in {"add_url", "get_links"} /\ ~everLoginTrue)
          => (pc = "done" /\ ret = "raise" /\ ~acted)
    /\ (op = "login" /\ driver = "None")
          => (pc = "done" /\ ret = "raise" /\ ~acted)

C1_Witness ==
    op = "add_url" /\ pc = "done" /\ ret = "raise" /\ driver = "live" /\ ~acted

\* C2: when its precondition held, a finished login or add_url has returned
\* a boolean and a finished get_links a list, whatever session call raised.
C2_NoFaultEscapes ==
    pc = "done" =>
        /\ (op = "login" /\ driver # "None") => ret \in Bool
        /\ (op = "add_url" /\ driver # "None" /\ is_logged_in) => ret \in Bool
        /\ (op = "get_links" /\ is_logged_in) => ret = "list"

\* add_url on a closed session: its navigation raised and it returned False.
C2_Witness ==
    pc = "done" /\ op = "add_url" /\ driver = "quit" /\ acted /\ ret = "False"

NoMarkerFault == \A k \in 1..Len(loc.markers) : loc.markers[k] # Fault
MarkerPresent == \E k \in 1..Len(loc.markers) : loc.markers[k] # <<>>

\* C3: after the form was submitted and the URL and the markers were read
\* without a fault, login returns True exactly when the URL does not contain
\* "login" or one of the marker links is present.
C3_LoginOutcome ==
    (pc = "done" /\ op = "login" /\ loc.current_url # NoUrl /\ NoMarkerFault)
        => (ret = "True" <=> (~Contains(loc.current_url, "login") \/ MarkerPresent))

\* The URL still contains "login", a marker is present, login returned True.
C3_Witness ==
    /\ pc = "done" /\ op = "login" /\ ret = "True"
    /\ loc.current_url # NoUrl /\ Contains(loc.current_url, "login")
    /\ NoMarkerFault /\ MarkerPresent

\* C4: login touches a field only after an input element was found, resolves
\* and fills the password field only after the username was entered, submits
\* only after the password was entered; with no username field anywhere it
\* returns False with no password entry and no submission.
C4_LoginGating ==
    op = "login" =>
        /\ (pc = "login_enter_username"
              \/ DidAny(UsernameLabels \cup PasswordLabels \cup SubmitLabels))
              => Did("inputs")
        /\ (pc \in {"login_password_selectors", "login_password_by_type",
                    "login_enter_password"} \/ DidAny(PasswordLabels))
              => Did("username:ok")
        /\ (pc \in {"login_submit_selectors", "login_submit", "login_check"}
              \/ DidAny(SubmitLabels))
              => Did("password:ok")
        /\ (pc = "done" /\ ~DidAny(UsernameLabels))
              => (ret \in {"False", "raise"} /\ ~DidAny(PasswordLabels \cup SubmitLabels))

\* The field was in no iframe either: login returned False, nothing touched.
C4_Witness ==
    /\ op = "login" /\ pc = "done" /\ ret = "False"
    /\ Did("inputs") /\ Did("iframes") /\ resolve.plan = "iframe"
    /\ ~Did("restore:fail")
    /\ ~DidAny(UsernameLabels \cup PasswordLabels \cup SubmitLabels)

PlanOf(name) ==
    CASE name = "username" -> username_selectors
      [] name = "iframe" -> iframe_selectors
      [] name = "password" -> password_selectors
      [] name = "submit" -> submit_selectors
      [] name = "url" -> url_selectors
      [] name = "first_submit" -> first_submit_selectors
      [] name = "title" -> title_selectors
      [] name = "save" -> save_selectors

FieldOf(name) ==
    CASE name \in {"username", "iframe"} -> "username_field"
      [] name = "password" -> "password_field"
      [] name = "submit" -> "submit_button"
      [] name = "url" -> "url_field"
      [] name = "first_submit" -> "first_submit_button"
      [] name = "title" -> "title_field"
      [] name = "save" -> "save_button"

LoopOf(name) ==
    CASE name = "username" -> "login_username_selectors"
      [] name = "iframe" -> "login_iframe_selectors"
      [] name = "password" -> "login_password_selectors"
      [] name = "submit" -> "login_submit_selectors"
      [] name = "url" -> "add_url_url_selectors"
      [] name = "first_submit" -> "add_url_first_submit_selectors"
      [] name = "title" -> "add_url_title_selectors"
      [] name = "save" -> "add_url_save_selectors"

SelectorPlans ==
    {"username", "iframe", "password", "submit", "url", "first_submit", "title", "save"}

\* C5: in every selector loop of login and add_url, the rule that matches
\* is the last rule queried, every rule before it matched nothing, and the
\* element taken is the first element of its match.
C5_PriorityOrder ==
    resolve.plan \in SelectorPlans =>
        /\ Len(resolve.seen) <= Len(PlanOf(resolve.plan))
        /\ \A k \in 1..Len(resolve.seen) :
              resolve.seen[k] # <<>> =>
                  /\ k = Len(resolve.seen)
                  /\ resolve.chosen = resolve.seen[k][1]
                  /\ loc[FieldOf(resolve.plan)] = resolve.chosen
                  /\ pc # LoopOf(resolve.plan)

\* A later rule matched two elements; the first of them was taken.
C5_Witness ==
    /\ resolve.plan = "save" /\ Len(resolve.seen) > 1
    /\ Len(Last(resolve.seen)) > 1
    /\ loc.save_button = Last(resolve.seen)[1]

\* The username search of login has ended, with or without a field.
SearchReturned ==
    pc = "login_enter_username" \/ (pc = "done" /\ ~DidAny(UsernameLabels))

\* C6, as stated: when the username search fell back to the iframes, the
\* document context is the default one when the search returns.
C6_Original ==
    (op = "login" /\ Did("iframes") /\ SearchReturned) => ctx = 0

\* C6, amended: the context is back at the default document after every
\* iframe that did not hold the field, and so when the search ends without
\* a field, unless the switch back itself raised; a field found inside an
\* iframe leaves the context in that iframe.
C6_Amended ==
    (op = "login" /\ Did("iframes")) =>
        /\ pc = "login_iframe_switch" => ctx = 0
        /\ pc = "login_iframe_selectors" => (ctx = fr /\ fr >= 1)
        /\ pc = "login_enter_username" => (ctx = fr /\ fr >= 1)
        /\ (pc = "done" /\ ~DidAny(UsernameLabels) /\ ~Did("restore:fail"))
              => (ctx = 0 /\ ret = "False")

\* The field was found in the second iframe, after the first was left.
C6_Witness ==
    op = "login" /\ Did("iframes") /\ pc = "login_enter_username" /\ ctx = 2

TacticOrder == <<"direct", "scrolled", "scripted">>

\* C7: the tactics run in the order direct, scrolled, scripted; only the
\* last tactic run can have succeeded, and the call succeeds exactly then.
C7_TacticOrder ==
    /\ Len(ia.tried) <= 3
    /\ \A k \in 1..Len(ia.tried) : ia.tried[k].tactic = TacticOrder[k]
    /\ \A k \in 1..(Len(ia.tried) - 1) : ia.tried[k].outcome # "ok"
    /\ ia.ok <=> (ia.tried # <<>> /\ Last(ia.tried).outcome = "ok")

\* Direct failed, scrolled succeeded, scripted was not run.
C7_Witness ==
    /\ ia.action = "click" /\ ia.ok /\ Len(ia.tried) = 2
    /\ ia.tried[1].outcome = "fault" /\ ia.tried[2].outcome = "ok"

\* The interaction that was asked for was carried out, or it raised: the
\* tactic did not pass over it.
Attempted(t) == t.outcome # "noop"

\* C8, as stated: try_interact_with_element never raises, and on an element
\* it reports failure, for a click or a set-text with any text, only after
\* all three tactics were attempted and each of them failed.
C8_Original ==
    /\ ~ia.raised
    /\ (pc = "done" /\ op = "try_interact_with_element") => ret \in Bool
    /\ (ia.element # NoElem /\ ia.action # "none" /\ ~ia.ok)
          => /\ Len(ia.tried) = 3
             /\ \A k \in 1..3 : Attempted(ia.tried[k]) /\ ia.tried[k].outcome = "fault"

\* C8, amended: try_interact_with_element never raises; on an element, a
\* click or a set-text with a non-empty text reports failure only after all
\* three tactics were attempted and each of them raised; a set-text with an
\* empty or missing text reports failure after the three tactics were
\* passed through with neither the direct nor the scripted one attempted.
C8_Amended ==
    /\ ~ia.raised
    /\ (pc = "done" /\ op = "try_interact_with_element") => ret \in Bool
    /\ (ia.element # NoElem /\ ia.action # "none" /\ ~ia.ok)
          => /\ Len(ia.tried) = 3
             /\ IF ia.action = "click" \/ Truthy(ia.text)
                THEN \A k \in 1..3 : ia.tried[k].outcome = "fault"
                ELSE /\ ~Attempted(ia.tried[1]) /\ ~Attempted(ia.tried[3])
                     /\ ia.tried[2].outcome # "ok"
    /\ (ia.element # NoElem /\ ia.action = "send_keys" /\ ~Truthy(ia.text))
          => ~ia.ok

\* A set-text on which all three tactics raised.
C8_Witness ==
    /\ pc = "done" /\ op = "try_interact_with_element" /\ ret = "False"
    /\ ia.element # NoElem /\ ia.action = "send_keys" /\ Truthy(ia.text)
    /\ Len(ia.tried) = 3 /\ \A k \in 1..3 : ia.tried[k].outcome = "fault"

\* C9: step one of add_url, reached after the URL was entered: without a
\* submit control the Enter key goes to the URL field and success leads to
\* the second page; with one, it is clicked, the Enter key is not used and
\* a failed click returns False.
C9_StepOneSubmit ==
    [][ pc = "add_url_first_submit" =>
          /\ Did("url:ok")
          /\ IF loc.first_submit_button = NoElem
             THEN /\ ia'.element = loc.url_field
                  /\ ia'.action = "send_keys" /\ ia'.text = ENTER
                  /\ Last(steps') \in {"enter:ok", "enter:fail"}
                  /\ ia'.ok => (pc' = "add_url_title_selectors" /\ ret' = "none")
                  /\ ~ia'.ok => (pc' = "done" /\ ret' = "False")
             ELSE /\ ia'.element = loc.first_submit_button
                  /\ ia'.action = "click"
                  /\ Last(steps') \in {"first_submit:ok", "first_submit:fail"}
                  /\ ~ia'.ok => (pc' = "done" /\ ret' = "False")
      ]_vars

\* The Enter key submitted step one and the second page is being read.
C9_Witness ==
    op = "add_url" /\ Did("enter:ok") /\ pc = "add_url_title_selectors"

\* C10: without a title field add_url returns False and never reaches the
\* save control; a failed fill of the title field does not end it.
C10_TitleLoadBearing ==
    op = "add_url" =>
        /\ (pc = "done" /\ resolve.plan = "title") => (ret = "False" /\ ~DidAny(SaveLabels))
        /\ (pc \in {"add_url_save_selectors", "add_url_save", "add_url_check"}
              \/ DidAny(SaveLabels)) => Did("title_field")
        /\ pc = "add_url_fill_title" => loc.title_field # NoElem
        /\ (pc = "done" /\ Did("title:fail"))
              => (DidAny({"save:fail", "check"}) \/ resolve.plan = "save")

\* The title could not be set and add_url still returned True.
C10_Witness ==
    op = "add_url" /\ pc = "done" /\ Did("title:fail") /\ ret = "True"

\* C11: once the save control was activated and the URL was read, add_url
\* returns True exactly when the URL contains neither "add-shaare" nor
\* "admin".
C11_AddUrlOutcome ==
    (pc = "done" /\ op = "add_url" /\ Did("save:ok") /\ loc.current_url # NoUrl)
        => /\ ret \in Bool
           /\ ret = "True" <=> (/\ ~Contains(loc.current_url, "add-shaare")
                                /\ ~Contains(loc.current_url, "admin"))

\* The URL has "admin" but not "add-shaare": add_url returned False.
C11_Witness ==
    /\ pc = "done" /\ op = "add_url" /\ Did("save:ok") /\ ret = "False"
    /\ Contains(loc.current_url, "admin")
    /\ ~Contains(loc.current_url, "add-shaare")

\* C12: get_links never holds more than limit candidates and never returns
\* more than limit records, whichever tier supplied the candidates.
C12_AtMostLimit ==
    op = "get_links" =>
        /\ Len(loc.link_elements) <= args.limit
        /\ Len(loc.links) <= args.limit

\* Tier 3 found more external anchors than the limit and as many records
\* as the limit were returned.
C12_Witness ==
    /\ op = "get_links" /\ pc = "done" /\ ret = "list"
    /\ loc.tier = 3 /\ args.limit >= 1
    /\ loc.found > args.limit /\ Len(loc.links) = args.limit

\* C13: no record of get_links has an empty url or a url of the site
\* itself, whichever tier supplied the candidate and also when a tier-1
\* candidate is itself an anchor.
C13_OnlyExternalRecords ==
    op = "get_links" =>
        \A k \in 1..Len(loc.links) :
            /\ HrefTruthy(loc.links[k].url)
            /\ ~Contains(loc.links[k].url, "base")

\* The same, for the records that do not come from a tier-1 anchor.
C13_ExceptTierOneAnchors ==
    (op = "get_links" /\ loc.tier # 1) =>
        \A k \in 1..Len(loc.links) :
            /\ HrefTruthy(loc.links[k].url)
            /\ ~Contains(loc.links[k].url, "base")

\* A get_links call against a fixed page without a tier-1 match, whose scan
\* of the anchors runs without a fault.
AnchorScanRun ==
    /\ ~page.live /\ page.modern = 0 /\ page.scan = "ok"
    /\ op = "get_links" /\ pc = "done" /\ ret = "list"

\* The positions of the external anchors among the anchors of the page.
ExternalAt ==
    {p \in 1..Len(page.anchors) :
        Contains(page.anchors[p], "http") /\ ~Contains(page.anchors[p], "base")}

Min(a, b) == IF a < b THEN a ELSE b

\* C14: with no tier-1 match and n external anchors on the page,
\* get_links(limit) returns min(limit, n) records: the k-th record is the
\* k-th external anchor of the page, it comes from tier 2 and does not
\* point at the site.
C14_AnchorScan ==
    AnchorScanRun =>
        LET m == Min(args.limit, Cardinality(ExternalAt))
        IN /\ Did("tier1") /\ ~Did("tier1:hit") /\ Did("tier2")
           /\ Len(loc.links) = m
           /\ m > 0 => loc.tier = 2
           /\ \A k \in 1..Len(loc.links) :
                 LET p == loc.links[k].idx
                 IN /\ p \in ExternalAt
                    /\ Cardinality({q \in ExternalAt : q < p}) = k - 1
                    /\ loc.links[k].url = page.anchors[p]
                    /\ ~Contains(loc.links[k].url, "base")

\* An anchor of the site and then an external one: one record, the second
\* anchor of the page.
C14_Witness ==
    /\ AnchorScanRun /\ args.limit >= 1
    /\ Len(page.anchors) = 2 /\ ExternalAt = {2}
    /\ Contains(page.anchors[1], "base")
    /\ Len(loc.links) = 1 /\ loc.links[1].idx = 2

MandatoryFails ==
    {"username:fail", "password:fail", "url:fail", "first_submit:fail", "save:fail"}

\* C16, as stated: in login and add_url, when the interaction with the
\* resolved username field, password field, login submit control, URL
\* field, step-one submit control or save control fails, the operation
\* returns False.
C16_Original ==
    (pc = "done" /\ op \in {"login", "add_url"}
        /\ DidAny(MandatoryFails \cup {"submit:fail"}))
        => ret = "False"

\* C16, amended: a failed interaction with the username field, password
\* field, URL field, step-one submit control or save control returns False
\* at once; after a failed click on the login submit control the enter key
\* is sent to the password field, and login returns False if that raises
\* and goes on to the outcome check if it does not.
C16_Amended ==
    op \in {"login", "add_url"} =>
        /\ DidAny(MandatoryFails) => (pc = "done" /\ ret = "False"
                                        /\ Last(steps) \in MandatoryFails)
        /\ (Did("submit:fail") /\ ~ia.raised)
              => DidAny({"enter:ok", "enter:fail"})
        /\ Did("enter:fail") => (pc = "done" /\ ret = "False")
        /\ (Did("submit:fail") /\ Did("enter:ok"))
              => (pc = "login_check" \/ (pc = "done" /\ Did("check")))

\* The click on the login button failed, the enter key went through and
\* login returned True.
C16_Witness ==
    /\ pc = "done" /\ op = "login" /\ ret = "True"
    /\ Did("submit:fail") /\ Did("enter:ok")

\* C17: the save control that add_url chose contains "Save" whenever the
\* page holds a control that contains "Save" (no lookup having raised).
C17_SavePreferred ==
    (pc = "add_url_save" /\ ~loc.save_fault /\ loc.save_on_page)
        => HasSave(loc.save_kind)

IframePcs == {"login_iframe_switch", "login_iframe_selectors", "login_iframe_restore"}

AllEmpty(seen) == \A k \in 1..Len(seen) : seen[k] = <<>>

\* One step of login, as far as the username search is concerned.
C18_Step ==
    \* approach 2 follows the whole selector plan, every rule without a match
    /\ (pc' = "login_username_form" /\ pc # pc') =>
           /\ pc = "login_username_selectors"
           /\ Len(resolve'.seen) = Len(username_selectors)
           /\ AllEmpty(resolve'.seen)
    \* approach 3 follows approach 2 without a field
    /\ (pc' = "login_username_any_input" /\ pc # pc') =>
           /\ pc = "login_username_form"
           /\ loc'.username_field = NoElem
    \* the iframes follow approach 3 without a field, the first iframe first
    /\ (pc' \in IframePcs /\ pc \notin IframePcs) =>
           /\ pc = "login_username_any_input"
           /\ loc'.username_field = NoElem
           /\ pc' = "login_iframe_switch" /\ fr' = 1
    \* iframes in document order, each entered by its own index
    /\ (pc \in IframePcs /\ pc' \in IframePcs) =>
           /\ fr' \in {fr, fr + 1}
           /\ fr' <= loc.iframes
           /\ fr' = fr + 1 => pc' = "login_iframe_switch" /\ ctx' = 0
    /\ (pc \in IframePcs /\ ctx' # ctx) => ctx' \in {0, fr}
    \* inside an iframe: rules 1..5 of the username plan, in order, up to
    \* the first match, which ends the search in this iframe
    /\ pc = "login_iframe_selectors" =>
           /\ resolve.plan = "iframe" /\ ctx = fr
           /\ i <= 5 /\ Len(resolve.seen) = i - 1 /\ AllEmpty(resolve.seen)
           /\ iframe_selectors[i] = username_selectors[i]
           /\ pc' # pc =>
                 IF resolve'.chosen # NoElem
                 THEN /\ pc' = "login_enter_username"
                      /\ loc'.username_field = resolve'.chosen
                      /\ fr' = fr /\ ctx' = ctx
                 ELSE i = 5 /\ pc' = "login_iframe_restore"
           /\ (pc' = pc /\ i' # i) => i' = i + 1 /\ resolve'.chosen = NoElem

\* C18: the iframes are searched only after the selector plan, the form
\* approach and the any-input approach all ended without a field; they
\* are visited in document order, rules 1..5 of the username plan are
\* tried in order inside each, and the first match ends the search.
C18_IframeFallback == [][C18_Step]_vars

\* The field was found in the second iframe by a rule after the first.
C18_Witness ==
    /\ op = "login" /\ pc = "login_enter_username" /\ Did("iframes")
    /\ fr = 2 /\ ctx = 2
    /\ resolve.plan = "iframe" /\ Len(resolve.seen) > 1
    /\ loc.username_field = resolve.chosen /\ resolve.chosen # NoElem

OptionalPcs == {"add_url_description", "add_url_tags", "add_url_private"}

OptionalLabels ==
    {"description:ok", "description:fail", "tags:ok", "tags:fail",
     "private:checked", "private:unchecked", "private:ok", "private:fail"}

IsMandatoryLabel(label) == label \notin OptionalLabels
Mandatory(log) == SelectSeq(log, IsMandatoryLabel)

\* One step of add_url inside its optional blocks: whatever is found and
\* whatever the interaction does, the workflow goes on to the block that
\* the arguments name next, and nothing that the rest of the workflow
\* reads or returns has changed.
C19_Step ==
    (op = "add_url" /\ pc \in OptionalPcs) =>
        /\ pc' \in OptionalPcs \cup {"add_url_save_selectors"}
        /\ pc' # pc =>
              pc' = CASE pc = "add_url_description" -> AfterDescription
                      [] pc = "add_url_tags" -> AfterTags
                      [] pc = "add_url_private" -> "add_url_save_selectors"
        /\ pc' = "add_url_save_selectors" => (i' = 1 /\ resolve' = StartResolve("save"))
        /\ UNCHANGED <<driver, is_logged_in, op, args, ret, loc, fr, ctx, everLoginTrue>>
        /\ Mandatory(steps') = Mandatory(steps)

\* C19: the optional steps of add_url (description, tags, private checkbox)
\* never decide its outcome: found or not, filled or not, read or raised,
\* the workflow continues to the save control from the same state.
C19_OptionalNeverDecides == [][C19_Step]_vars

\* Description, tags and checkbox all failed and add_url returned True.
C19_Witness ==
    /\ op = "add_url" /\ pc = "done" /\ ret = "True"
    /\ Did("description:fail") /\ Did("tags:fail") /\ Did("private:fail")

PrivateLabels == {"private:checked", "private:unchecked", "private:ok", "private:fail"}

\* C20: the private checkbox is clicked only when private was requested
\* and is_selected() said it was not checked: without the flag the
\* checkbox is neither looked up nor touched, and a checkbox found checked
\* is never clicked.
C20_PrivateOnlyWhenNeeded ==
    op = "add_url" =>
        /\ ~args.private =>
              (pc # "add_url_private" /\ resolve.plan # "private"
                  /\ ~DidAny(PrivateLabels))
        /\ DidAny({"private:ok", "private:fail"}) =>
              (args.private /\ Did("private:unchecked") /\ ~Did("private:checked"))
        /\ Did("private:checked") => ~DidAny({"private:ok", "private:fail"})

\* The checkbox was found checked, left alone, and the bookmark was saved.
C20_Witness ==
    /\ op = "add_url" /\ pc = "done" /\ ret = "True" /\ args.private
    /\ Did("private:checked")

\* C15: get_links called again with the same limit against an unchanged
\* page returns the same sequence of records as the call before it, and
\* the call before it has left the client as it was.
C15_Idempotent ==
    (~page.live /\ op = "get_links" /\ pc = "done" /\ prev.set) =>
        /\ args.limit = prev.limit
        /\ ret = prev.ret
        /\ loc.links = prev.links
        /\ driver = "live" /\ is_logged_in

\* The second call returned the two records that the first had returned.
C15_Witness ==
    /\ ~page.live /\ op = "get_links" /\ pc = "done" /\ prev.set
    /\ ret = "list" /\ Len(loc.links) = 2 /\ loc.links = prev.links

\* The place of a step of add_url in the order of its source.
StepRank(label) ==
    CASE label = "get" -> 1
      [] label \in {"url:ok", "url:fail"} -> 2
      [] label \in {"first_submit:ok", "first_submit:fail", "enter:ok", "enter:fail"} -> 3
      [] label = "title_field" -> 4
      [] label \in {"title:ok", "title:fail"} -> 5
      [] label \in {"description:ok", "description:fail"} -> 6
      [] label \in {"tags:ok", "tags:fail"} -> 7
      [] label \in {"private:checked", "private:unchecked"} -> 8
      [] label \in {"private:ok", "private:fail"} -> 9
      [] label \in {"save:ok", "save:fail"} -> 10
      [] label = "check" -> 11
      [] OTHER -> 0

\* The place of a position of add_url in the order of its source.
PcRank(p) ==
    CASE p = "idle" -> 0
      [] p = "add_url_get" -> 1
      [] p = "add_url_url_selectors" -> 2
      [] p = "add_url_enter_url" -> 3
      [] p = "add_url_first_submit_selectors" -> 4
      [] p = "add_url_first_submit" -> 5
      [] p = "add_url_title_selectors" -> 6
      [] p = "add_url_fill_title" -> 7
      [] p = "add_url_description" -> 8
      [] p = "add_url_tags" -> 9
      [] p = "add_url_private" -> 10
      [] p = "add_url_save_selectors" -> 11
      [] p = "add_url_save" -> 12
      [] p = "add_url_check" -> 13
      [] p = "done" -> 14
      [] OTHER -> 0

\* The steps of the running add_url call are in the order of the source,
\* none of them twice, and the save control comes after a URL that was
\* set, a step one that was submitted and a title field that was found.
C21_State ==
    op = "add_url" =>
        /\ \A k \in 1..Len(steps) : StepRank(steps[k]) > 0
        /\ \A k \in 1..(Len(steps) - 1) : StepRank(steps[k]) < StepRank(steps[k + 1])
        /\ (pc \in {"add_url_save", "add_url_check"} \/ DidAny(SaveLabels \cup {"check"})) =>
              /\ Did("get") /\ Did("url:ok")
              /\ DidAny({"first_submit:ok", "enter:ok"})
              /\ Did("title_field")
        /\ Did("check") => Did("save:ok")

\* A step of add_url moves forward in the source, or stays in its loop.
C21_Step ==
    (op = "add_url" /\ pc # "done") =>
        /\ PcRank(pc') >= PcRank(pc)
        /\ (Len(steps') > Len(steps)) => PcRank(pc') > PcRank(pc)

\* C21: within one add_url call the steps are taken in the order navigate,
\* URL, step-one submit, title field, title, description, tags, private,
\* save, check; no step is taken twice, and the save control is activated
\* only after the URL was set, step one submitted and a title field found.
C21_StepOrder == [](C21_State) /\ [][C21_Step]_vars

\* A call that took every step, the optional ones included.
C21_Witness ==
    /\ op = "add_url" /\ pc = "done" /\ Did("check")
    /\ DidAny({"title:ok", "title:fail"})
    /\ DidAny({"description:ok", "description:fail"})
    /\ DidAny({"tags:ok", "tags:fail"})
    /\ DidAny({"private:ok", "private:fail"})

\* C22: once a tier-1 selector of get_links matched an element, tiers 2
\* and 3 are not consulted; tier 3 is consulted only after tier 2 was, and
\* tier 2 only after every tier-1 selector was tried without a match.
C22_FirstTierWins ==
    op = "get_links" =>
        /\ Did("tier1:hit") =>
              /\ pc \notin {"get_links_anchor_scan", "get_links_containers"}
              /\ ~DidAny({"tier2", "tier2:fault", "tier3"})
        /\ (pc = "get_links_containers" \/ Did("tier3")) => DidAny({"tier2", "tier2:fault"})
        /\ (pc = "get_links_anchor_scan" \/ DidAny({"tier2", "tier2:fault"})) => Did("tier1")

\* C23, as stated: in tier 3 of get_links no container is consulted after
\* the first one that exists on the page.
C23_Original ==
    (op = "get_links" /\ pc = "get_links_containers") => loc.containers = 0

\* One lookup of the container loop: it ends the loop with the external
\* anchors of its container as candidates, or it is the last one and no
\* candidate was found, or the loop goes on to the next container.
C23_Step ==
    (op = "get_links" /\ pc = "get_links_containers") =>
        /\ loc.link_elements = <<>> /\ loc.containers < i
        /\ IF pc' = pc
           THEN /\ i' = i + 1
                /\ loc'.link_elements = <<>>
                /\ loc'.containers \in {loc.containers, loc.containers + 1}
           ELSE \/ /\ loc'.found > 0 /\ loc'.containers = loc.containers + 1
                   /\ Len(loc'.link_elements) = Min(args.limit, loc'.found)
                   /\ \A k \in 1..Len(loc'.link_elements) :
                         IsExternal(loc'.link_elements[k].href)
                   /\ pc' = IF args.limit > 0 THEN "get_links_extract" ELSE "done"
                \/ /\ i = Len(container_selectors) /\ loc'.found = 0
                   /\ pc' = "done" /\ loc'.links = <<>>

\* C23, amended: tier 3 consults the page-content containers in priority
\* order up to the first one that holds an external anchor; that container
\* supplies the candidates, and a container that is missing or holds no
\* external anchor is passed over for the next one.
C23_Amended == [][C23_Step]_vars

\* The candidates come from a container that follows one which exists
\* and holds no external anchor.
C23_Witness ==
    /\ op = "get_links" /\ pc = "get_links_extract"
    /\ loc.tier = 3 /\ loc.containers >= 2

\* C24: every record of get_links has a title that is not empty: the text
\* of the anchor when it is not empty, otherwise its title attribute when
\* that is not empty, otherwise "No title".
C24_TitleFallback ==
    (~page.live /\ op = "get_links") =>
        \A k \in 1..Len(loc.links) :
            LET rec == loc.links[k]
                text == TextAt(rec.idx)
                label == LabelAt(rec.idx)
            IN /\ rec.title \notin {"", " ", None}
               /\ rec.title = IF text \notin {"", " "} THEN text
                               ELSE IF label \notin {None, ""} THEN label
                               ELSE "No title"

\* Two records were returned: the first one titled by its title attribute
\* because its text is white space, the second one by the sentinel.
C24_Witness ==
    /\ ~page.live /\ op = "get_links" /\ pc = "done" /\ ret = "list"
    /\ Len(loc.links) = 2
    /\ TextAt(loc.links[1].idx) = " " /\ loc.links[1].title = "l"
    /\ TextAt(loc.links[2].idx) = "" /\ LabelAt(loc.links[2].idx) = None
    /\ loc.links[2].title = "No title"

Terminal == pc = "done" /\ ret \in {"True", "False", "list"}

\* C25: wait_for_page_ready returns normally whatever its waits do, and
\* every login, add_url and get_links call that has started reaches a
\* result: True, False or a list.
C25_GateNonFatal ==
    /\ []((op = "wait_for_page_ready" /\ pc = "done") => ret = "None")
    /\ [](Running => op \in {"login", "add_url", "get_links"})
    /\ (Running ~> Terminal)

\* The wait for the complete state timed out and the gate returned.
C25_Witness ==
    op = "wait_for_page_ready" /\ pc = "done" /\ steps = <<"load_timeout">> /\ ret = "None"

\* C26: when the Enter key submits step one of add_url, the URL field
\* holds the target URL, typed in the step before, at the moment the key is
\* sent.
C26_EnterKeepsUrl ==
    (op = "add_url" /\ Did("enter:ok")) => loc.enter_over = <<args.url>>

\* C27: is_logged_in changes only from False to True, and only in the step
\* of a login call that returns True; a login that returns False, add_url,
\* get_links and close leave it as it is, so that once a login has
\* succeeded no later add_url or get_links is refused at its check of the
\* flag, whether or not a later login failed or the driver was closed.
C27_Step ==
    /\ is_logged_in' # is_logged_in =>
          /\ ~is_logged_in /\ is_logged_in'
          /\ op = "login" /\ op' = "login" /\ pc = "login_check"
          /\ pc' = "done" /\ ret' = "True"
    /\ (pc' = "done" /\ op' = "login" /\ ret' # "True") => is_logged_in' = is_logged_in
    /\ op' \in {"add_url", "get_links", "close"} => is_logged_in' = is_logged_in
    /\ (everLoginTrue /\ pc = "idle" /\ op' \in {"add_url", "get_links"})
          => (pc' # "done" /\ ret' # "raise")

C27_FlagMonotone ==
    [][C27_Step]_vars /\ [](everLoginTrue => is_logged_in)

\* After a login that succeeded and a close, a second login has returned
\* False and the flag is still set.
C27_Witness ==
    /\ op = "login" /\ pc = "done" /\ ret = "False"
    /\ is_logged_in /\ driver = "quit"

\* C28: in every state reached through the constructor, start_driver,
\* close, login, add_url and get_links, is_logged_in implies that the
\* driver attribute is set; so get_links, which tests only the flag, never
\* works on a missing driver.
C28_FlagImpliesDriver ==
    /\ is_logged_in => driver # "None"
    /\ (op = "get_links" /\ Running) => driver # "None"

\* get_links has passed its check after the driver was closed: the
\* attribute still refers to the driver that was quit.
C28_Witness ==
    is_logged_in /\ driver = "quit" /\ op = "get_links" /\ pc = "get_links_get"

\* C29: against a page that does not change, approach 3 adds nothing when
\* the scan of approach 2 ran without a fault: when the scan found no
\* candidate, no container yields one either and get_links returns the
\* empty list; approach 3 supplies the candidates only of a call whose
\* scan faulted.
C29_TierThreeAddsNothing ==
    (~page.live /\ op = "get_links") =>
        /\ loc.tier = 3 => Did("tier2:fault")
        /\ (Did("tier2") /\ Did("tier3")) =>
              /\ pc \in {"get_links_containers", "done", "idle"}
              /\ loc.link_elements = <<>>
              /\ pc = "done" => (ret = "list" /\ loc.links = <<>>)

\* The scan ran without a fault over a page whose anchors all point at the
\* site, the container that holds them was read, and the empty list was
\* returned.
C29_Witness ==
    /\ ~page.live /\ op = "get_links" /\ pc = "done" /\ ret = "list"
    /\ Did("tier2") /\ Did("tier3") /\ loc.containers = 1
    /\ page.anchors # <<>> /\ loc.links = <<>>

\* The candidates of the tier that supplied link_elements, by position:
\* the tier-1 matches of the page, or its external anchors.
CandidatesAt == IF loc.tier = 1 THEN 1..page.n ELSE ExternalAt

\* The first n of a set of positions.
FirstOf(S, n) == {c \in S : Cardinality({q \in S : q < c}) < n}

\* Candidate c of the page yields a url: an anchor by its href, a container
\* by an external anchor inside it.
BearsUrl(c) ==
    IF loc.tier # 1 THEN TRUE
    ELSE IF page.tag = "a" THEN AnchorAt(c) \notin {HrefNone, HrefEmpty}
    ELSE c \in ExternalAt

\* C30: get_links cuts the candidates of the winning tier down to the first
\* `limit` before it extracts: the records returned are exactly the records
\* of those of the first `limit` candidates that yield a url, in the order
\* of the candidates; a candidate skipped for lack of an external link is
\* not replaced by a later one.
C30_TruncateFirst ==
    (~page.live /\ op = "get_links" /\ pc = "done" /\ ret = "list") =>
        LET first == FirstOf(CandidatesAt, args.limit)
            expected == {c \in first : BearsUrl(c)}
        IN /\ loc.tier # 0 =>
                 {loc.link_elements[k].idx : k \in 1..Len(loc.link_elements)} = first
           /\ Len(loc.links) = Cardinality(expected)
           /\ {loc.links[k].idx : k \in 1..Len(loc.links)} = expected
           /\ \A j, k \in 1..Len(loc.links) :
                 j < k => loc.links[j].idx < loc.links[k].idx

\* get_links(1) over two containers: the first one holds no external
\* anchor and is skipped, the second one holds one and is not looked at,
\* and the list returned is empty.
C30_Witness ==
    /\ ~page.live /\ op = "get_links" /\ pc = "done" /\ ret = "list"
    /\ loc.tier = 1 /\ page.tag = "div" /\ page.n = 2 /\ args.limit = 1
    /\ ~BearsUrl(1) /\ BearsUrl(2)
    /\ loc.links = <<>>

\* The steps that a call leaves out when it has returned at an earlier one.
PasswordEntry == {"login_enter_password"}
Submission == {"login_submit_selectors", "login_submit", "login_check"}
StepOneSubmission ==
    {"add_url_first_submit_selectors", "add_url_first_submit",
     "add_url_title_selectors", "add_url_fill_title", "add_url_description",
     "add_url_tags", "add_url_private", "add_url_save_selectors",
     "add_url_save", "add_url_check"}

\* The call has returned False, or was refused by its check of the driver
\* and the flag before it did anything.
ReturnedFalse ==
    pc = "done" => (ret = "False" \/ (ret = "raise" /\ steps = <<>> /\ ~acted))

\* C31: a set-text with an empty or missing text touches the element in
\* none of the three tactics, the scroll of the second tactic apart, and
\* reports failure; so login with an empty username returns False before
\* the password is entered, login with an empty password returns False
\* before the form is submitted, and add_url with an empty URL returns
\* False before step one is submitted.
C31_EmptyTextFails ==
    /\ (ia.element # NoElem /\ ia.action = "send_keys" /\ ~Truthy(ia.text)) =>
          /\ ~ia.ok /\ ~ia.raised
          /\ Len(ia.tried) = 3
          /\ \A k \in 1..3 :
                /\ ia.tried[k].outcome # "ok"
                /\ Calls(ia.tried[k].tactic, ia.action, ia.text) =
                      IF ia.tried[k].tactic = "scrolled"
                      THEN <<"scrollIntoView">> ELSE <<>>
          /\ (op = "try_interact_with_element" /\ pc = "done") => ret = "False"
    /\ (op = "login" /\ ~Truthy(args.username)) =>
          /\ pc \notin PasswordEntry \cup Submission
          /\ ~DidAny(PasswordLabels \cup SubmitLabels)
          /\ ReturnedFalse
    /\ (op = "login" /\ ~Truthy(args.password)) =>
          /\ pc \notin Submission
          /\ ~DidAny(SubmitLabels)
          /\ ReturnedFalse
    /\ (op = "add_url" /\ ~Truthy(args.url)) =>
          /\ pc \notin StepOneSubmission
          /\ ~DidAny({"first_submit:ok", "first_submit:fail", "enter:ok", "enter:fail"})
          /\ ReturnedFalse

\* login with a username and an empty password: the username was entered,
\* the set-text of the password scrolled to the field and did nothing else,
\* and login returned False.
C31_Witness ==
    /\ op = "login" /\ pc = "done" /\ ret = "False"
    /\ Truthy(args.username) /\ ~Truthy(args.password)
    /\ Did("username:ok") /\ Last(steps) = "password:fail"
    /\ ia.action = "send_keys" /\ ia.text = args.password
    /\ ia.tried[1].outcome = "noop" /\ ia.tried[2].outcome = "noop"
    /\ ia.tried[3].outcome = "noop"

====
